---- MODULE Spec2Model ----
(***************************************************************************)
(* The normalization-and-merge pipeline of aquiles-etl-pipeline:           *)
(* core/etl_orchestrator.py (file tracker, staging loader, fact merger,    *)
(* process_csv_from_stream) and the connection probe it calls first.       *)
(*                                                                         *)
(* The database is Azure SQL: every Session/engine.begin() block is one    *)
(* transaction; a statement reads the committed rows plus the rows its own *)
(* transaction wrote, and an UPDATE of a row another open transaction has  *)
(* updated waits for that transaction.  IDENTITY values are handed out at  *)
(* insert time and are not given back by a rollback.                       *)
(***************************************************************************)
EXTENDS Integers, Sequences, FiniteSets, TLC

NULL == "NULL"   \* None / SQL NULL in a text, number or date column
NoId == 0        \* None / SQL NULL where an Id is expected (IDENTITY starts at 1)

\* ---------------------------------------------------------------- bounds
MaxStaged == 3       \* records staged over all batches (merge specification)
MaxMergeRuns == 2    \* runs of the merge per batch (merge specification)
MaxFaults == 1       \* injected failures of a database call in one behaviour
MaxRetriesBound == 4 \* largest max_retries tried (connection specification)
MaxPriceLen == 4     \* characters of a price string (transform specification)
MaxRows == 2         \* rows of a record set given to apply_transformations

\* Two invocations (database sessions) run side by side, numbered in the
\* order in which they start: enough for every pairwise interleaving.
Inv == {1, 2}

\* ------------------------------------------------------- program constants
StatusFailed == 1
StatusInProgress == 2
StatusSucceeded == 3
DefaultContainer == "products-dev"

\* ------------------------------------------------------------- input data
\* Rows as apply_transformations hands them to the staging loader.
Rec(prov, name, raw, price, unit, units, iva) ==
    [CleanProviderName |-> prov, CleanDescription |-> name, RawDescription |-> raw,
     CleanPrice |-> price, Measure |-> IF unit = NULL THEN NULL ELSE "500",
     UnitOfMeasure |-> unit, CleanLastReviewDt |-> "2024-01-15",
     PackageUnits |-> units, PercentageIVA |-> iva]

RecAP == Rec("Prov A", "Arroz 500G X 12 (G13)", "arroz 500g x 12 (G13)", "2500", "g", "12", "13")
RecBP == Rec("Prov B", "Arroz 500G X 12 (G13)", "ARROZ 500G X 12 (G13)", "2700", "g", NULL, "13")
RecBQ == Rec("Prov B", "Aceite 500Ml", "aceite 500ml", "4200", "ml", NULL, NULL)

Catalog == {RecAP, RecBP, RecBQ}

\* The blobs of the container: a two-record file, a one-record file that
\* shares a provider and a product with it, and an empty file.
Files == {"a.csv", "b.csv", "empty.csv"}
Blob(f) ==
    CASE f = "a.csv" -> <<RecAP, RecBQ>>
      [] f = "b.csv" -> <<RecBP>>
      [] OTHER -> <<>>

VARIABLES
    ProcessFile,            \* table ProcessFile: set of rows
    UnitOfMeasure,          \* table UnitOfMeasure
    Provider,               \* table Provider (committed rows)
    Product,                \* table Product (committed rows)
    Provider_Product,       \* table Provider_Product (committed rows)
    StagingProvider,        \* Staging.Provider: per BatchGuid, its rows in insert order
    StagingProduct,         \* Staging.Product, likewise
    StagingProviderProduct, \* Staging.Provider_Product, likewise
    nextId,                 \* IDENTITY counters, one per table
    pc,                     \* position of each invocation
    blob_name,              \* its blob_name argument
    csv_data,               \* its csv_data argument, as the rows it parses to
    file_status,            \* what check_process_file_status returned to it
    process_file_id,        \* its local process_file_id (NoId: unbound or None)
    tx,                     \* the uncommitted writes of its merge transaction
    result,                 \* the dict it returned
    ops,                    \* the database writes it has made, in order
    runs,                   \* merge runs it has started (merge specification)
    last_commit,            \* the invocation whose merge committed last (NoId: none)
    faults,                 \* database calls that have failed so far
    conn,                   \* one call of ensure_connection_established
    call                    \* one call of a top-level entry point

vars == <<ProcessFile, UnitOfMeasure, Provider, Product, Provider_Product,
          StagingProvider, StagingProduct, StagingProviderProduct, nextId,
          pc, blob_name, csv_data, file_status, process_file_id, tx, result, ops, runs,
          last_commit, faults, conn, call>>

dbTracker == <<ProcessFile>>
dbCanonical == <<Provider, Product, Provider_Product>>
dbStaging == <<StagingProvider, StagingProduct, StagingProviderProduct, UnitOfMeasure>>

\* ---------------------------------------------------------------- helpers
Range(s) == {s[k] : k \in DOMAIN s}

RECURSIVE DistinctSeq(_)
DistinctSeq(s) ==
    IF Len(s) = 0 THEN <<>>
    ELSE LET h == DistinctSeq(SubSeq(s, 1, Len(s) - 1))
             x == s[Len(s)]
         IN IF x \in Range(h) THEN h ELSE Append(h, x)

RECURSIVE SetToSeq(_)
SetToSeq(S) ==
    IF S = {} THEN <<>>
    ELSE LET x == CHOOSE y \in S : TRUE IN <<x>> \o SetToSeq(S \ {x})

Ids(S) == {r.Id : r \in S}

NoTx == [insProvider |-> {}, updProvider |-> {}, insProduct |-> {}, updProduct |-> {},
         insProviderProduct |-> {}, updProviderProduct |-> {}]

\* ------------------------------------------------- File Processing Tracker
\* check_process_file_status: the dicts that query(...).filter_by(...).first()
\* can give.  The query has no ORDER BY, so with several rows for one file
\* the database picks the row.
check_process_file_status(container, filename) ==
    LET hit == {r \in ProcessFile : r.Container = container /\ r.FileName = filename}
    IN IF hit = {}
       THEN {[exists |-> FALSE, status_id |-> NoId, id |-> NoId]}
       ELSE {[exists |-> TRUE, status_id |-> r.StatusId, id |-> r.Id] : r \in hit}

\* Faulty variant of insert_process_file_record: the new row gets StatusId 1.
insert_process_file_record_failed(table, id, container, filename) ==
    table \cup {[Id |-> id, Container |-> container, FileName |-> filename,
                 StatusId |-> StatusFailed]}

\* insert_process_file_record: the table after session.add + commit.
insert_process_file_record(table, id, container, filename) ==
    table \cup {[Id |-> id, Container |-> container, FileName |-> filename,
                 StatusId |-> StatusInProgress]}

\* update_process_file_status: the row with that Id, if there is one.
update_process_file_status(table, process_file_id_, status_id) ==
    {IF r.Id = process_file_id_ THEN [r EXCEPT !.StatusId = status_id] ELSE r : r \in table}

\* ----------------------------------------------------------- Staging Loader
\* get_or_create_unit_of_measure on the table `units`, next identity `next`.
get_or_create_unit_of_measure(units, next, unit_acronym) ==
    LET hit == {u \in units : u.Acronym = unit_acronym}
    IN IF hit # {}
       THEN [units |-> units, next |-> next,
             id |-> (CHOOSE u \in hit : \A v \in hit : u.Id <= v.Id).Id]
       ELSE [units |-> units \cup {[Id |-> next, Acronym |-> unit_acronym]},
             next |-> next + 1, id |-> next]

\* product_df['UnitOfMeasure'].apply(get_or_create_unit_of_measure ...), row by row.
RECURSIVE UnitOfMeasureIds(_, _, _)
UnitOfMeasureIds(units, next, rows) ==
    IF rows = <<>> THEN [units |-> units, next |-> next, ids |-> <<>>]
    ELSE LET r == Head(rows)
             g == IF r.UnitOfMeasure = NULL
                  THEN [units |-> units, next |-> next, id |-> NoId]
                  ELSE get_or_create_unit_of_measure(units, next, r.UnitOfMeasure)
             rest == UnitOfMeasureIds(g.units, g.next, Tail(rows))
         IN [units |-> rest.units, next |-> rest.next, ids |-> <<g.id>> \o rest.ids]

\* The three row sets normalize_to_staging_tables_from_dataframe appends for
\* DataFrame df and batch_guid, and the UnitOfMeasure table it leaves.
provider_df(df, batch_guid) ==
    LET unique_providers ==
            DistinctSeq([k \in 1..Len(SelectSeq(df, LAMBDA r : r.CleanProviderName # NULL)) |->
                SelectSeq(df, LAMBDA r : r.CleanProviderName # NULL)[k].CleanProviderName])
    IN [k \in 1..Len(unique_providers) |->
           [Name |-> unique_providers[k], BatchGuid |-> batch_guid]]

product_df(df) == SelectSeq(df, LAMBDA r : r.CleanDescription # NULL)

product_staging_df(df, batch_guid, ids) ==
    [k \in 1..Len(product_df(df)) |->
        [ProductName |-> product_df(df)[k].CleanDescription,
         Description |-> product_df(df)[k].RawDescription,
         Price |-> product_df(df)[k].CleanPrice,
         Measure |-> product_df(df)[k].Measure,
         UnitOfMeasureId |-> ids[k],
         BatchGuid |-> batch_guid]]

provider_product_staging_df(df, batch_guid) ==
    [k \in 1..Len(df) |->
        [ProductId |-> 0, ProviderId |-> 0,
         LastReviewDt |-> df[k].CleanLastReviewDt,
         PackageUnits |-> df[k].PackageUnits,
         IVA |-> df[k].PercentageIVA,
         IsValidated |-> 0,
         BatchGuid |-> batch_guid]]

\* normalize_to_staging_tables_from_dataframe on staging state st, stopped by
\* an exception after `upto` of its three to_sql calls (3: it returns).
normalize_to_staging_tables_from_dataframe(st, df, batch_guid, upto) ==
    IF Len(df) = 0 THEN st
    ELSE LET u == UnitOfMeasureIds(st.units, st.next, product_df(df))
             to_sql(table, rows) == [table EXCEPT ![batch_guid] = @ \o rows]
         IN [providers |-> IF upto >= 1
                           THEN to_sql(st.providers, provider_df(df, batch_guid))
                           ELSE st.providers,
             products  |-> IF upto >= 2
                           THEN to_sql(st.products, product_staging_df(df, batch_guid, u.ids))
                           ELSE st.products,
             provider_products |->
                           IF upto >= 3
                           THEN to_sql(st.provider_products,
                                       provider_product_staging_df(df, batch_guid))
                           ELSE st.provider_products,
             units |-> IF upto >= 1 THEN u.units ELSE st.units,
             next  |-> IF upto >= 1 THEN u.next ELSE st.next]

StagingState ==
    [providers |-> StagingProvider, products |-> StagingProduct,
     provider_products |-> StagingProviderProduct,
     units |-> UnitOfMeasure, next |-> nextId.UnitOfMeasure]

staging_summary(df) ==
    IF Len(df) = 0 THEN [providers |-> 0, products |-> 0, provider_products |-> 0]
    ELSE [providers |-> Len(provider_df(df, 0)), products |-> Len(product_df(df)),
          provider_products |-> Len(df)]

\* -------------------------------------------------------------- Fact Merger
\* What transaction i reads: the committed rows, with its own writes.
ViewProvider(i) ==
    {r \in Provider : r.Id \notin Ids(tx[i].updProvider)}
        \cup tx[i].updProvider \cup tx[i].insProvider
ViewProduct(i) ==
    {r \in Product : r.Id \notin Ids(tx[i].updProduct)}
        \cup tx[i].updProduct \cup tx[i].insProduct
ViewProviderProduct(i) ==
    {r \in Provider_Product : r.Id \notin Ids(tx[i].updProviderProduct)}
        \cup tx[i].updProviderProduct \cup tx[i].insProviderProduct

\* Rows another open transaction has updated and not yet committed.
LockedProvider(i) == UNION {Ids(tx[j].updProvider) : j \in Inv \ {i}}
LockedProduct(i) == UNION {Ids(tx[j].updProduct) : j \in Inv \ {i}}
LockedProviderProduct(i) == UNION {Ids(tx[j].updProviderProduct) : j \in Inv \ {i}}

\* All rows of a staging table: the rows every invocation has appended.
RECURSIVE RowsUpTo(_, _)
RowsUpTo(staging, n) ==
    IF n = 0 THEN <<>> ELSE RowsUpTo(staging, n - 1) \o staging[n]

AllRows(staging) == RowsUpTo(staging, Cardinality(Inv))

\* Faulty variant of InBatch: the WHERE BatchGuid = :batch_guid is missing.
InBatchUnfiltered(staging, batch_guid) == AllRows(staging)

\* SELECT ... FROM Staging.<table> WHERE BatchGuid = :batch_guid
InBatch(staging, batch_guid) ==
    SelectSeq(AllRows(staging), LAMBDA r : r.BatchGuid = batch_guid)

\* Faulty variant of merge_providers_sql: the statement has a WHEN MATCHED
\* THEN UPDATE SET CreateDt = GETDATE() clause as well.
merge_providers_sql_touches(target, batch_guid, next) ==
    LET staged == InBatch(StagingProvider, batch_guid)
        source == DistinctSeq([k \in 1..Len(staged) |-> staged[k].Name])
        new == SelectSeq(source, LAMBDA n : \A t \in target : t.Name # n)
    IN [error |-> FALSE,
        upd |-> {[t EXCEPT !.CreateDt = next] : t \in {t \in target : t.Name \in Range(source)}},
        ins |-> {[Id |-> next + k - 1, Name |-> new[k], CreateDt |-> next] :
                    k \in 1..Len(new)}]

\* Faulty variant of merge_providers_sql: a plain INSERT ... SELECT DISTINCT,
\* without the match on Name.
merge_providers_sql_insert_all(target, batch_guid, next) ==
    LET staged == InBatch(StagingProvider, batch_guid)
        source == DistinctSeq([k \in 1..Len(staged) |-> staged[k].Name])
    IN [error |-> FALSE,
        upd |-> {},
        ins |-> {[Id |-> next + k - 1, Name |-> source[k], CreateDt |-> next] :
                    k \in 1..Len(source)}]

\* MERGE Provider ... WHEN NOT MATCHED THEN INSERT, on target rows `target`.
\* There is no WHEN MATCHED clause: the statement updates nothing.  GETDATE()
\* is one value per statement; the identity counter the statement starts
\* from stands for the clock (both only grow).
merge_providers_sql(target, batch_guid, next) ==
    LET staged == InBatch(StagingProvider, batch_guid)
        source == DistinctSeq([k \in 1..Len(staged) |-> staged[k].Name])
        new == SelectSeq(source, LAMBDA n : \A t \in target : t.Name # n)
    IN [error |-> FALSE,
        upd |-> {},
        ins |-> {[Id |-> next + k - 1, Name |-> new[k], CreateDt |-> next] :
                    k \in 1..Len(new)}]

\* MERGE Product ... WHEN MATCHED THEN UPDATE ... WHEN NOT MATCHED THEN INSERT.
\* The source is not de-duplicated: SQL Server raises error 8672 when a
\* target row matches more than one source row, and inserts every source
\* row that matches no target row.
merge_products_sql(target, batch_guid, next) ==
    LET source == InBatch(StagingProduct, batch_guid)
        hits(t) == {k \in 1..Len(source) : source[k].ProductName = t.ProductName}
        new == SelectSeq(source, LAMBDA s : \A t \in target : t.ProductName # s.ProductName)
        set(t, s) == [t EXCEPT !.Description = s.Description, !.Price = s.Price,
                               !.Measure = s.Measure,
                               !.UnitOfMeasureId = s.UnitOfMeasureId]
    IN [error |-> \E t \in target : Cardinality(hits(t)) > 1,
        upd |-> {set(t, source[CHOOSE k \in hits(t) : TRUE]) :
                     t \in {t \in target : Cardinality(hits(t)) = 1}},
        ins |-> {[Id |-> next + k - 1, ProductName |-> new[k].ProductName,
                  Description |-> new[k].Description, Price |-> new[k].Price,
                  Measure |-> new[k].Measure,
                  UnitOfMeasureId |-> new[k].UnitOfMeasureId] : k \in 1..Len(new)}]

\* MERGE Provider_Product.  The source joins the batch's staged
\* provider-product rows to the batch's staged products and providers on
\* BatchGuid alone, and those to Product and Provider by name: one source row
\* per <<spp, sp, p, spr, pr>> combination.
merge_provider_product_sql(target, products, providers, batch_guid, next) ==
    LET spp == InBatch(StagingProviderProduct, batch_guid)
        sp  == InBatch(StagingProduct, batch_guid)
        spr == InBatch(StagingProvider, batch_guid)
        source == {j \in (1..Len(spp)) \X (1..Len(sp)) \X Ids(products)
                             \X (1..Len(spr)) \X Ids(providers) :
                      /\ \E p \in products :
                            p.Id = j[3] /\ p.ProductName = sp[j[2]].ProductName
                      /\ \E pr \in providers :
                            pr.Id = j[5] /\ pr.Name = spr[j[4]].Name}
        hits(t) == {j \in source : j[3] = t.ProductId /\ j[5] = t.ProviderId}
        new == SetToSeq({j \in source :
                   \A t \in target : ~(j[3] = t.ProductId /\ j[5] = t.ProviderId)})
        set(t, s) == [t EXCEPT !.LastReviewDt = s.LastReviewDt,
                               !.PackageUnits = s.PackageUnits,
                               !.IVA = s.IVA, !.IsValidated = s.IsValidated]
    IN [error |-> \E t \in target : Cardinality(hits(t)) > 1,
        upd |-> {set(t, spp[(CHOOSE j \in hits(t) : TRUE)[1]]) :
                     t \in {t \in target : Cardinality(hits(t)) = 1}},
        ins |-> UNION {{[Id |-> next + k - 1, ProductId |-> n[k][3], ProviderId |-> n[k][5],
                         LastReviewDt |-> s[n[k][1]].LastReviewDt,
                         PackageUnits |-> s[n[k][1]].PackageUnits,
                         IVA |-> s[n[k][1]].IVA,
                         IsValidated |-> s[n[k][1]].IsValidated] : k \in 1..Len(n)} :
                      n \in {new}, s \in {spp}}]

\* ------------------------------------------------- process_csv_from_stream
MergePcs == {"merge_provider", "merge_product", "merge_provider_product", "commit"}

Failure(msg) == [status |-> FALSE, message |-> msg]

\* An exception reaches the handler of process_csv_from_stream.  With no
\* process_file_id the handler touches nothing and returns; with one it goes
\* on to update the record (Handler).
Raise(i, msg, pfid) ==
    /\ result' = [result EXCEPT ![i] = Failure(msg)]
    /\ pc' = [pc EXCEPT ![i] = IF pfid = NoId THEN "done" ELSE "handler"]

\* A database call fails (the store is suspended, the connection drops, a
\* constraint or a deadlock aborts the statement).
Fault == faults < MaxFaults /\ faults' = faults + 1

Did(i, op) == ops' = [ops EXCEPT ![i] = Append(@, op)]

\* The trigger delivers invocation i: invocations are numbered in the order
\* in which they start.
Delivered(i) == pc[i] = "idle" /\ \A j \in Inv : j < i => pc[j] # "idle"

\* Faulty variant of ConnectFail: the failure of the probe is ignored and the
\* invocation goes on to the tracker.
ConnectFailContinues(i, f) ==
    /\ Delivered(i)
    /\ Fault
    /\ pc' = [pc EXCEPT ![i] = "check"]
    /\ blob_name' = [blob_name EXCEPT ![i] = f]
    /\ csv_data' = [csv_data EXCEPT ![i] = Blob(f)]
    /\ UNCHANGED <<dbTracker, dbCanonical, dbStaging, nextId, file_status,
                   process_file_id, tx, result, ops, runs, last_commit, conn, call>>

\* Faulty variant of ConnectFail: the failed invocation still records the
\* file, in state Failed, before it returns.
ConnectFailTracks(i, f) ==
    /\ Delivered(i)
    /\ Fault
    /\ blob_name' = [blob_name EXCEPT ![i] = f]
    /\ csv_data' = [csv_data EXCEPT ![i] = Blob(f)]
    /\ ProcessFile' = insert_process_file_record_failed(
           ProcessFile, nextId.ProcessFile, DefaultContainer, f)
    /\ nextId' = [nextId EXCEPT !.ProcessFile = @ + 1]
    /\ Did(i, "ProcessFile.insert")
    /\ Raise(i, "connection", NoId)
    /\ UNCHANGED <<dbCanonical, dbStaging, file_status, process_file_id, tx, runs,
                   last_commit, conn, call>>

\* create_azure_sql_engine + ensure_connection_established return a result.
Connect(i, f) ==
    /\ Delivered(i)
    /\ pc' = [pc EXCEPT ![i] = "check"]
    /\ blob_name' = [blob_name EXCEPT ![i] = f]
    /\ csv_data' = [csv_data EXCEPT ![i] = Blob(f)]
    /\ UNCHANGED <<dbTracker, dbCanonical, dbStaging, nextId, file_status,
                   process_file_id, tx, result, ops, runs, last_commit, faults, conn, call>>

\* ensure_connection_established raises after its retries (or returns None).
ConnectFail(i, f) ==
    /\ Delivered(i)
    /\ Fault
    /\ blob_name' = [blob_name EXCEPT ![i] = f]
    /\ csv_data' = [csv_data EXCEPT ![i] = Blob(f)]
    /\ Raise(i, "connection", NoId)
    /\ UNCHANGED <<dbTracker, dbCanonical, dbStaging, nextId, file_status,
                   process_file_id, tx, ops, runs, last_commit, conn, call>>

\* Faulty variant of CheckStatus: the skip is missing, every file goes on.
CheckStatusNoSkip(i) ==
    /\ pc[i] = "check"
    /\ \E st \in check_process_file_status(DefaultContainer, blob_name[i]) :
          file_status' = [file_status EXCEPT ![i] = st]
    /\ pc' = [pc EXCEPT ![i] = "track"]
    /\ UNCHANGED <<dbTracker, dbCanonical, dbStaging, nextId, blob_name, csv_data,
                   process_file_id, tx, result, ops, runs, last_commit, faults, conn, call>>

\* check_process_file_status, and the skip of a file in status 3.
CheckStatus(i) ==
    /\ pc[i] = "check"
    /\ \E st \in check_process_file_status(DefaultContainer, blob_name[i]) :
          /\ file_status' = [file_status EXCEPT ![i] = st]
          /\ IF st.exists /\ st.status_id = StatusSucceeded
             THEN /\ pc' = [pc EXCEPT ![i] = "done"]
                  /\ result' = [result EXCEPT ![i] =
                         [status |-> TRUE, message |-> "skipped",
                          rows_processed |-> 0, rows_written |-> 0]]
             ELSE /\ pc' = [pc EXCEPT ![i] = "track"]
                  /\ UNCHANGED result
    /\ UNCHANGED <<dbTracker, dbCanonical, dbStaging, nextId, blob_name, csv_data,
                   process_file_id, tx, ops, runs, last_commit, faults, conn, call>>

\* check_process_file_status raises.
CheckFail(i) ==
    /\ pc[i] = "check"
    /\ Fault
    /\ Raise(i, "check", NoId)
    /\ UNCHANGED <<dbTracker, dbCanonical, dbStaging, nextId, blob_name, csv_data, file_status,
                   process_file_id, tx, ops, runs, last_commit, conn, call>>

\* Insert or update the ProcessFile record with status 2.
Track(i) ==
    /\ pc[i] = "track"
    /\ IF ~file_status[i].exists
       THEN /\ ProcessFile' = insert_process_file_record(
                   ProcessFile, nextId.ProcessFile, DefaultContainer, blob_name[i])
            /\ process_file_id' = [process_file_id EXCEPT ![i] = nextId.ProcessFile]
            /\ nextId' = [nextId EXCEPT !.ProcessFile = @ + 1]
            /\ Did(i, "ProcessFile.insert")
       ELSE /\ ProcessFile' = update_process_file_status(
                   ProcessFile, file_status[i].id, StatusInProgress)
            /\ process_file_id' = [process_file_id EXCEPT ![i] = file_status[i].id]
            /\ UNCHANGED nextId
            /\ Did(i, "ProcessFile.update")
    /\ pc' = [pc EXCEPT ![i] = "stage"]
    /\ UNCHANGED <<dbCanonical, dbStaging, blob_name, csv_data, file_status, tx, result,
                   runs, last_commit, faults, conn, call>>

\* The insert or the update raises.  process_file_id is None when the insert
\* raised, and already bound to the record's Id when the update raised.
TrackFail(i) ==
    /\ pc[i] = "track"
    /\ Fault
    /\ process_file_id' = [process_file_id EXCEPT ![i] = file_status[i].id]
    /\ Raise(i, "tracker", file_status[i].id)
    /\ UNCHANGED <<dbTracker, dbCanonical, dbStaging, nextId, blob_name, csv_data, file_status,
                   tx, ops, runs, last_commit, conn, call>>

\* insert_process_file_record raises after its commit, at the read of pf.Id
\* (the commit expires the object, the read is a new round trip): the row is
\* there, in status 2, and process_file_id stays None.
TrackLost(i) ==
    /\ pc[i] = "track"
    /\ ~file_status[i].exists
    /\ Fault
    /\ ProcessFile' = insert_process_file_record(
           ProcessFile, nextId.ProcessFile, DefaultContainer, blob_name[i])
    /\ nextId' = [nextId EXCEPT !.ProcessFile = @ + 1]
    /\ Did(i, "ProcessFile.insert")
    /\ Raise(i, "tracker", NoId)
    /\ UNCHANGED <<dbCanonical, dbStaging, blob_name, csv_data, file_status,
                   process_file_id, tx, runs, last_commit, conn, call>>

\* pd.read_csv raises on empty data; a header without rows raises ValueError.
\* Faulty variant of EmptyCsv: the check of df.empty is missing, the empty
\* frame goes on to the staging load (which stages nothing) and the merge.
EmptyCsvProceeds(i) ==
    /\ pc[i] = "stage"
    /\ Len(csv_data[i]) = 0
    /\ pc' = [pc EXCEPT ![i] = "merge_provider"]
    /\ UNCHANGED <<dbTracker, dbCanonical, dbStaging, nextId, blob_name, csv_data, file_status,
                   process_file_id, tx, result, ops, runs, last_commit, faults, conn, call>>

EmptyCsv(i) ==
    /\ pc[i] = "stage"
    /\ Len(csv_data[i]) = 0
    /\ Raise(i, "CSV file is empty", process_file_id[i])
    /\ UNCHANGED <<dbTracker, dbCanonical, dbStaging, nextId, blob_name, csv_data, file_status,
                   process_file_id, tx, ops, runs, last_commit, faults, conn, call>>

StageTo(i, upto) ==
    LET st == normalize_to_staging_tables_from_dataframe(
                  StagingState, csv_data[i], i, upto)
    IN /\ StagingProvider' = st.providers
       /\ StagingProduct' = st.products
       /\ StagingProviderProduct' = st.provider_products
       /\ UnitOfMeasure' = st.units
       /\ nextId' = [nextId EXCEPT !.UnitOfMeasure = st.next]
       /\ ops' = [ops EXCEPT ![i] =
              @ \o (IF st.units # UnitOfMeasure THEN <<"UnitOfMeasure.insert">> ELSE <<>>)
                \o (IF upto >= 1 THEN <<"Staging.insert">> ELSE <<>>)]

\* Faulty variant of Stage: the call of merge_staging_to_fact_tables is
\* missing, the staged file goes straight to the status update.
StageSkipMerge(i) ==
    /\ pc[i] = "stage"
    /\ Len(csv_data[i]) > 0
    /\ StageTo(i, 3)
    /\ pc' = [pc EXCEPT ![i] = "update_status"]
    /\ UNCHANGED <<dbTracker, dbCanonical, blob_name, csv_data, file_status, process_file_id,
                   tx, result, runs, last_commit, faults, conn, call>>

\* apply_transformations, create_staging_tables, a fresh batch_guid (the
\* invocation's own) and normalize_to_staging_tables_from_dataframe.
Stage(i) ==
    /\ pc[i] = "stage"
    /\ Len(csv_data[i]) > 0
    /\ StageTo(i, 3)
    /\ pc' = [pc EXCEPT ![i] = "merge_provider"]
    /\ UNCHANGED <<dbTracker, dbCanonical, blob_name, csv_data, file_status, process_file_id,
                   tx, result, runs, last_commit, faults, conn, call>>

\* One of those raises, after `upto` of the three staging inserts.
StageFail(i, upto) ==
    /\ pc[i] = "stage"
    /\ Fault
    /\ Len(csv_data[i]) > 0
    /\ StageTo(i, upto)
    /\ Raise(i, "staging", process_file_id[i])
    /\ UNCHANGED <<dbTracker, dbCanonical, blob_name, csv_data, file_status, process_file_id,
                   tx, runs, last_commit, conn, call>>

\* Faulty variant of MergeProvider: the Provider MERGE runs on an
\* autocommit connection, outside the transaction of the other two.
MergeProviderAutocommit(i) ==
    /\ pc[i] = "merge_provider"
    /\ LET m == merge_providers_sql(ViewProvider(i), i, nextId.Provider)
       IN /\ Provider' = {r \in Provider : r.Id \notin Ids(m.upd)} \cup m.upd \cup m.ins
          /\ tx' = [tx EXCEPT ![i] = NoTx]
          /\ nextId' = [nextId EXCEPT !.Provider = @ + Cardinality(m.ins)]
    /\ pc' = [pc EXCEPT ![i] = "merge_product"]
    /\ UNCHANGED <<dbTracker, Product, Provider_Product, dbStaging, blob_name, csv_data,
                   file_status, process_file_id, result, ops, runs, last_commit,
                   faults, conn, call>>

\* merge_staging_to_fact_tables: engine.begin() and the Provider MERGE.
MergeProvider(i) ==
    /\ pc[i] = "merge_provider"
    /\ LET m == merge_providers_sql(ViewProvider(i), i, nextId.Provider)
       IN /\ Ids(m.upd) \cap LockedProvider(i) = {}
          /\ tx' = [tx EXCEPT ![i] = [NoTx EXCEPT !.insProvider = m.ins,
                                                    !.updProvider = m.upd]]
          /\ nextId' = [nextId EXCEPT !.Provider = @ + Cardinality(m.ins)]
    /\ pc' = [pc EXCEPT ![i] = "merge_product"]
    /\ UNCHANGED <<dbTracker, dbCanonical, dbStaging, blob_name, csv_data, file_status,
                   process_file_id, result, ops, runs, last_commit, faults, conn, call>>

\* The Product MERGE.
MergeProduct(i) ==
    /\ pc[i] = "merge_product"
    /\ LET m == merge_products_sql(ViewProduct(i), i, nextId.Product)
       IN /\ ~m.error
          /\ Ids(m.upd) \cap LockedProduct(i) = {}
          /\ tx' = [tx EXCEPT ![i].insProduct = m.ins, ![i].updProduct = m.upd]
          /\ nextId' = [nextId EXCEPT !.Product = @ + Cardinality(m.ins)]
    /\ pc' = [pc EXCEPT ![i] = "merge_provider_product"]
    /\ UNCHANGED <<dbTracker, dbCanonical, dbStaging, blob_name, csv_data, file_status,
                   process_file_id, result, ops, runs, last_commit, faults, conn, call>>

\* The Provider_Product MERGE.
MergeProviderProduct(i) ==
    /\ pc[i] = "merge_provider_product"
    /\ LET m == merge_provider_product_sql(ViewProviderProduct(i), ViewProduct(i),
                                           ViewProvider(i), i, nextId.Provider_Product)
       IN /\ ~m.error
          /\ Ids(m.upd) \cap LockedProviderProduct(i) = {}
          /\ tx' = [tx EXCEPT ![i].insProviderProduct = m.ins,
                              ![i].updProviderProduct = m.upd]
          /\ nextId' = [nextId EXCEPT !.Provider_Product = @ + Cardinality(m.ins)]
    /\ pc' = [pc EXCEPT ![i] = "commit"]
    /\ UNCHANGED <<dbTracker, dbCanonical, dbStaging, blob_name, csv_data, file_status,
                   process_file_id, result, ops, runs, last_commit, faults, conn, call>>

\* A MERGE statement raises error 8672: the transaction rolls back.
MergeError(i) ==
    /\ \/ /\ pc[i] = "merge_product"
          /\ merge_products_sql(ViewProduct(i), i, nextId.Product).error
       \/ /\ pc[i] = "merge_provider_product"
          /\ merge_provider_product_sql(ViewProviderProduct(i), ViewProduct(i),
                 ViewProvider(i), i, nextId.Provider_Product).error
    /\ tx' = [tx EXCEPT ![i] = NoTx]
    /\ Raise(i, "merge: a row matched twice", process_file_id[i])
    /\ UNCHANGED <<dbTracker, dbCanonical, dbStaging, nextId, blob_name, csv_data, file_status,
                   process_file_id, ops, runs, last_commit, faults, conn, call>>

\* Any other failure inside the transaction (lost connection, constraint,
\* deadlock victim): the transaction rolls back.
MergeFault(i) ==
    /\ pc[i] \in MergePcs
    /\ Fault
    /\ tx' = [tx EXCEPT ![i] = NoTx]
    /\ Raise(i, "merge: statement failed", process_file_id[i])
    /\ UNCHANGED <<dbTracker, dbCanonical, dbStaging, nextId, blob_name, csv_data, file_status,
                   process_file_id, ops, runs, last_commit, conn, call>>

\* The with-block of engine.begin() ends: COMMIT.
Commit(i) ==
    /\ pc[i] = "commit"
    /\ Provider' = {r \in Provider : r.Id \notin Ids(tx[i].updProvider)}
                      \cup tx[i].updProvider \cup tx[i].insProvider
    /\ Product' = {r \in Product : r.Id \notin Ids(tx[i].updProduct)}
                     \cup tx[i].updProduct \cup tx[i].insProduct
    /\ Provider_Product' =
           {r \in Provider_Product : r.Id \notin Ids(tx[i].updProviderProduct)}
               \cup tx[i].updProviderProduct \cup tx[i].insProviderProduct
    /\ tx' = [tx EXCEPT ![i] = NoTx]
    /\ last_commit' = i
    /\ Did(i, "merge")
    /\ pc' = [pc EXCEPT ![i] = "update_status"]
    /\ UNCHANGED <<dbTracker, dbStaging, nextId, blob_name, csv_data, file_status,
                   process_file_id, result, runs, faults, conn, call>>

\* update_process_file_status(engine, process_file_id, 3) and the return.
MarkSucceeded(i) ==
    /\ pc[i] = "update_status"
    /\ ProcessFile' = update_process_file_status(ProcessFile, process_file_id[i],
                                                 StatusSucceeded)
    /\ Did(i, "ProcessFile.update")
    /\ result' = [result EXCEPT ![i] =
           [status |-> TRUE, message |-> "completed",
            rows_processed |-> Len(csv_data[i]),
            rows_written |-> staging_summary(csv_data[i]).providers
                             + staging_summary(csv_data[i]).products
                             + staging_summary(csv_data[i]).provider_products]]
    /\ pc' = [pc EXCEPT ![i] = "done"]
    /\ UNCHANGED <<dbCanonical, dbStaging, nextId, blob_name, csv_data, file_status,
                   process_file_id, tx, runs, last_commit, faults, conn, call>>

\* That update raises.
MarkFail(i) ==
    /\ pc[i] = "update_status"
    /\ Fault
    /\ Raise(i, "status update", process_file_id[i])
    /\ UNCHANGED <<dbTracker, dbCanonical, dbStaging, nextId, blob_name, csv_data, file_status,
                   process_file_id, tx, ops, runs, last_commit, conn, call>>

\* Faulty variant of Handler: the except block writes status 2 instead of 1.
HandlerWritesInProgress(i) ==
    /\ pc[i] = "handler"
    /\ ProcessFile' = update_process_file_status(ProcessFile, process_file_id[i],
                                                 StatusInProgress)
    /\ Did(i, "ProcessFile.update")
    /\ pc' = [pc EXCEPT ![i] = "done"]
    /\ UNCHANGED <<dbCanonical, dbStaging, nextId, blob_name, csv_data, file_status,
                   process_file_id, tx, result, runs, last_commit, faults, conn, call>>

\* The except block with a process_file_id: a new engine and
\* update_process_file_status(engine, process_file_id, 1), then the return.
Handler(i) ==
    /\ pc[i] = "handler"
    /\ ProcessFile' = update_process_file_status(ProcessFile, process_file_id[i],
                                                 StatusFailed)
    /\ Did(i, "ProcessFile.update")
    /\ pc' = [pc EXCEPT ![i] = "done"]
    /\ UNCHANGED <<dbCanonical, dbStaging, nextId, blob_name, csv_data, file_status,
                   process_file_id, tx, result, runs, last_commit, faults, conn, call>>

\* The except block's own try fails: `except: pass`, then the return.
\* The except block without its inner try: the error of the status update
\* leaves process_csv_from_stream instead of a result.
HandlerReraises(i) ==
    /\ pc[i] = "handler"
    /\ pc' = [pc EXCEPT ![i] = "done"]
    /\ result' = [result EXCEPT ![i] = [raised |-> "status update"]]
    /\ UNCHANGED <<dbTracker, dbCanonical, dbStaging, nextId, blob_name, csv_data, file_status,
                   process_file_id, tx, ops, runs, last_commit, faults, conn, call>>

HandlerSwallow(i) ==
    /\ pc[i] = "handler"
    /\ pc' = [pc EXCEPT ![i] = "done"]
    /\ UNCHANGED <<dbTracker, dbCanonical, dbStaging, nextId, blob_name, csv_data, file_status,
                   process_file_id, tx, result, ops, runs, last_commit, faults, conn, call>>

ConnIdle == [phase |-> "idle"]

InitPipeline ==
    /\ ProcessFile = {}
    /\ UnitOfMeasure = {}
    /\ Provider = {}
    /\ Product = {}
    /\ Provider_Product = {}
    /\ StagingProvider = [b \in Inv |-> <<>>]
    /\ StagingProduct = [b \in Inv |-> <<>>]
    /\ StagingProviderProduct = [b \in Inv |-> <<>>]
    /\ nextId = [ProcessFile |-> 1, UnitOfMeasure |-> 1, Provider |-> 1,
                 Product |-> 1, Provider_Product |-> 1]
    /\ pc = [i \in Inv |-> "idle"]
    /\ blob_name = [i \in Inv |-> NULL]
    /\ csv_data = [i \in Inv |-> <<>>]
    /\ file_status = [i \in Inv |-> [exists |-> FALSE, status_id |-> NoId, id |-> NoId]]
    /\ process_file_id = [i \in Inv |-> NoId]
    /\ tx = [i \in Inv |-> NoTx]
    /\ result = [i \in Inv |-> Failure("none")]
    /\ ops = [i \in Inv |-> <<>>]
    /\ runs = [i \in Inv |-> 0]
    /\ last_commit = NoId
    /\ faults = 0

\* No entry point is being called.
CallIdle == [fn |-> "none", at |-> "idle", container |-> NULL, name |-> NULL,
             vision |-> NULL, data |-> <<>>, products_data |-> <<>>,
             result |-> Failure("none")]

Init == InitPipeline /\ conn = ConnIdle /\ call = CallIdle

Next ==
    \E i \in Inv :
        \/ \E f \in Files : Connect(i, f)
        \/ \E f \in Files : ConnectFail(i, f)
        \/ CheckStatus(i)
        \/ CheckFail(i)
        \/ Track(i)
        \/ TrackFail(i)
        \/ TrackLost(i)
        \/ EmptyCsv(i)
        \/ Stage(i)
        \/ \E upto \in 0..2 : StageFail(i, upto)
        \/ MergeProvider(i)
        \/ MergeProduct(i)
        \/ MergeProviderProduct(i)
        \/ MergeError(i)
        \/ MergeFault(i)
        \/ Commit(i)
        \/ MarkSucceeded(i)
        \/ MarkFail(i)
        \/ Handler(i)
        \/ HandlerSwallow(i)

Spec == Init /\ [][Next]_vars

\* ------------------------------------------- merge_staging_to_fact_tables
\* The merge on its own: it is called for a batch that is already staged,
\* and may be called again for the same batch.
Batches == {df \in [Inv -> UNION {[1..n -> Catalog] : n \in 0..MaxStaged}] :
               Len(df[1]) + Len(df[2]) <= MaxStaged}

EmptyStaging ==
    [providers |-> [b \in Inv |-> <<>>], products |-> [b \in Inv |-> <<>>],
     provider_products |-> [b \in Inv |-> <<>>], units |-> {}, next |-> 1]

Staged(df) ==
    normalize_to_staging_tables_from_dataframe(
        normalize_to_staging_tables_from_dataframe(EmptyStaging, df[1], 1, 3),
        df[2], 2, 3)

InitMerge ==
    /\ csv_data \in Batches
    /\ StagingProvider = Staged(csv_data).providers
    /\ StagingProduct = Staged(csv_data).products
    /\ StagingProviderProduct = Staged(csv_data).provider_products
    /\ UnitOfMeasure = Staged(csv_data).units
    /\ nextId = [ProcessFile |-> 1, UnitOfMeasure |-> Staged(csv_data).next,
                 Provider |-> 1, Product |-> 1, Provider_Product |-> 1]
    /\ ProcessFile = {}
    /\ Provider = {}
    /\ Product = {}
    /\ Provider_Product = {}
    /\ pc = [i \in Inv |-> "staged"]
    /\ blob_name = [i \in Inv |-> NULL]
    /\ file_status = [i \in Inv |-> [exists |-> FALSE, status_id |-> NoId, id |-> NoId]]
    /\ process_file_id = [i \in Inv |-> NoId]
    /\ tx = [i \in Inv |-> NoTx]
    /\ result = [i \in Inv |-> Failure("none")]
    /\ ops = [i \in Inv |-> <<>>]
    /\ runs = [i \in Inv |-> 0]
    /\ last_commit = NoId
    /\ faults = 0
    /\ conn = ConnIdle
    /\ call = CallIdle

\* A call merge_staging_to_fact_tables(engine, i); the calls follow one another.
StartMerge(i) ==
    /\ pc[i] \in {"staged", "update_status", "done"}
    /\ \A j \in Inv : pc[j] \notin MergePcs
    /\ runs[i] < MaxMergeRuns
    /\ runs' = [runs EXCEPT ![i] = @ + 1]
    /\ pc' = [pc EXCEPT ![i] = "merge_provider"]
    /\ UNCHANGED <<dbTracker, dbCanonical, dbStaging, nextId, blob_name, csv_data,
                   file_status, process_file_id, tx, result, ops, last_commit,
                   faults, conn, call>>

NextMerge ==
    \E i \in Inv :
        \/ StartMerge(i)
        \/ MergeProvider(i)
        \/ MergeProduct(i)
        \/ MergeProviderProduct(i)
        \/ MergeError(i)
        \/ MergeFault(i)
        \/ Commit(i)

SpecMerge == InitMerge /\ [][NextMerge]_vars

\* ------------------------------------------ ensure_connection_established
\* One call ensure_connection_established(engine, max_retries): a loop over
\* attempt = 0 .. max_retries - 1 that probes the store (engine.connect and
\* SELECT 1), returns the probe's row on success, sleeps 2^attempt after a
\* failure that is not the last, and lets the last failure propagate.
\* conn.engine scripts the store: what each successive engine.connect gives.
ProbeOutcomes == {"ok", "Database sleeping", "Database unavailable"}

ProbeRow == "(1,)"

\* Faulty variant of backoff: a linear delay.
backoff_linear(attempt) == attempt + 1

backoff(attempt) == 2 ^ attempt

ConnCalls ==
    UNION {{[phase |-> "probing", max_retries |-> n, engine |-> e, attempt |-> 0,
             connects |-> 0, sleeps |-> <<>>, value |-> NULL] :
                e \in [1..n -> ProbeOutcomes]} : n \in 1..MaxRetriesBound}

InitConn == InitPipeline /\ conn \in ConnCalls /\ call = CallIdle

\* The probe of this attempt succeeds: return its row.
ProbeOk ==
    /\ conn.phase = "probing"
    /\ conn.engine[conn.connects + 1] = "ok"
    /\ conn' = [conn EXCEPT !.connects = @ + 1, !.phase = "returned",
                            !.value = ProbeRow]
    /\ UNCHANGED <<dbTracker, dbCanonical, dbStaging, nextId, pc, blob_name, csv_data,
                   file_status, process_file_id, tx, result, ops, runs, last_commit,
                   faults, call>>

\* The probe fails and attempts remain: time.sleep(2 ** attempt).
ProbeFailSleep ==
    /\ conn.phase = "probing"
    /\ conn.engine[conn.connects + 1] # "ok"
    /\ conn.attempt < conn.max_retries - 1
    /\ conn' = [conn EXCEPT !.connects = @ + 1, !.phase = "sleeping",
                            !.sleeps = Append(@, backoff(conn.attempt))]
    /\ UNCHANGED <<dbTracker, dbCanonical, dbStaging, nextId, pc, blob_name, csv_data,
                   file_status, process_file_id, tx, result, ops, runs, last_commit,
                   faults, call>>

\* The sleep returns: the loop goes to its next attempt.
Wake ==
    /\ conn.phase = "sleeping"
    /\ conn' = [conn EXCEPT !.attempt = @ + 1, !.phase = "probing"]
    /\ UNCHANGED <<dbTracker, dbCanonical, dbStaging, nextId, pc, blob_name, csv_data,
                   file_status, process_file_id, tx, result, ops, runs, last_commit,
                   faults, call>>

\* Faulty variant of ProbeFailRaise: the first attempt's error is raised.
ProbeFailRaiseFirst ==
    /\ conn.phase = "probing"
    /\ conn.engine[conn.connects + 1] # "ok"
    /\ ~(conn.attempt < conn.max_retries - 1)
    /\ conn' = [conn EXCEPT !.connects = @ + 1, !.phase = "raised",
                            !.value = conn.engine[1]]
    /\ UNCHANGED <<dbTracker, dbCanonical, dbStaging, nextId, pc, blob_name, csv_data,
                   file_status, process_file_id, tx, result, ops, runs, last_commit,
                   faults, call>>

\* The probe of the last attempt fails: its error is raised.
ProbeFailRaise ==
    /\ conn.phase = "probing"
    /\ conn.engine[conn.connects + 1] # "ok"
    /\ ~(conn.attempt < conn.max_retries - 1)
    /\ conn' = [conn EXCEPT !.connects = @ + 1, !.phase = "raised",
                            !.value = conn.engine[conn.connects + 1]]
    /\ UNCHANGED <<dbTracker, dbCanonical, dbStaging, nextId, pc, blob_name, csv_data,
                   file_status, process_file_id, tx, result, ops, runs, last_commit,
                   faults, call>>

NextConn == ProbeOk \/ ProbeFailSleep \/ Wake \/ ProbeFailRaise

\* The call is synchronous and blocking: it keeps running until it ends.
SpecConn == InitConn /\ [][NextConn]_vars /\ WF_vars(NextConn)

\* ------------------------------------------------- top-level entry points
\* One call of process_csv_from_stream, process_csv_from_blob,
\* process_from_products_step1, process_invoice_image_direct or
\* process_invoice_image.  The database work of the call is that of
\* invocation 1; `call` holds the entry point's own position and its result.
Containers == {DefaultContainer, "products-test"}
Images == {"factura_001.jpg", "foto.jpg"}

\* What the request to the vision service comes to: no endpoint or key
\* configured, a status other than 200, an exception, a 200 whose content is
\* not JSON, or a 200 whose content parses.
VisionOutcomes == {"no_config", "non200", "raises", "unparsable", "parsed"}

\* Invoice rows as apply_transformations hands them on: the invoice columns
\* are Producto, Fecha 1, Provedor, Precio and Porcentaje de IVA, and the
\* last is renamed to nothing, so the rows have no PercentageIVA.
InvoiceRec(prov, name, raw, price, measure, unit) ==
    [CleanProviderName |-> prov, CleanDescription |-> name, RawDescription |-> raw,
     CleanPrice |-> price, Measure |-> measure, UnitOfMeasure |-> unit,
     CleanLastReviewDt |-> "2024-01-15", PackageUnits |-> NULL]

\* extract_invoice_data_from_image: the mock products, by image name.
extract_invoice_data_from_image(image_name) ==
    IF image_name \in {"factura_001.jpg"}
    THEN <<InvoiceRec("Distribuidora San Juan", "Arroz Premium 1Kg",
                      "Arroz Premium 1kg", "250000", "1", "kg"),
           InvoiceRec("Distribuidora San Juan", "Aceite Vegetal 500Ml",
                      "Aceite Vegetal 500ml", "420000", "500", "ml")>>
    ELSE <<InvoiceRec("Proveedor Generico", "Producto Generico",
                      "Producto Generico", "100000", NULL, NULL)>>

\* What the vision service can answer with when its content parses.
VisionAnswers ==
    {<<>>, <<InvoiceRec("Prov A", "Arroz 500G", "arroz 500g", "2500", "500", "g")>>}

\* extract_invoice_data_with_openai: the parsed answer, and the mock
\* extraction in every other case.
extract_invoice_data_with_openai(vision, image_name, answer) ==
    IF vision = "parsed" THEN answer ELSE extract_invoice_data_from_image(image_name)

CsvEntries == {"process_csv_from_stream", "process_csv_from_blob"}
InvoiceEntries == {"process_invoice_image_direct", "process_invoice_image"}

EntryCall(fn, at, container, name, vision, data) ==
    [fn |-> fn, at |-> at, container |-> container, name |-> name,
     vision |-> vision, data |-> data, products_data |-> <<>>,
     result |-> Failure("none")]

EntryCalls ==
    {EntryCall("process_csv_from_stream", "stream", NULL, f, NULL, Blob(f)) : f \in Files}
    \cup {EntryCall("process_csv_from_blob", "start", c, f, NULL, Blob(f)) :
             c \in Containers, f \in Files}
    \cup {EntryCall("process_from_products_step1", "start", NULL, NULL, NULL, Blob(f)) :
             f \in Files}
    \cup {EntryCall(fn, "start", NULL, img, v, <<>>) :
             fn \in InvoiceEntries, img \in Images, v \in VisionOutcomes \ {"parsed"}}
    \cup {EntryCall(fn, "start", NULL, img, "parsed", a) :
             fn \in InvoiceEntries, img \in Images, a \in VisionAnswers}

InitEntry == InitPipeline /\ conn = ConnIdle /\ call \in EntryCalls

Completed == [status |-> TRUE, message |-> "completed"]

\* The entry point returns r.
Return(r) == call' = [call EXCEPT !.result = r, !.at = "returned"]

pipelineVars == <<dbTracker, dbCanonical, dbStaging, nextId, pc, blob_name, csv_data,
                  file_status, process_file_id, tx, result, ops, runs, last_commit,
                  faults, conn>>

\* process_csv_from_blob: get_blob_service_client and read_blob_content
\* return, and process_csv_from_stream is called with the content.
ReadBlob ==
    /\ call.at = "start"
    /\ call.fn = "process_csv_from_blob"
    /\ call' = [call EXCEPT !.at = "stream"]
    /\ UNCHANGED pipelineVars

\* One of them raises.
ReadBlobFail ==
    /\ call.at = "start"
    /\ call.fn = "process_csv_from_blob"
    /\ Return(Failure("blob"))
    /\ UNCHANGED pipelineVars

\* process_csv_from_stream has returned: its dict is the call's result.
StreamReturn ==
    /\ call.at = "stream"
    /\ pc[1] = "done"
    /\ Return(result[1])
    /\ UNCHANGED pipelineVars

\* process_from_products_step1: the connection is established; the rows of
\* ProductsStep1 are what normalize_to_staging_tables will read.
Step1Connect ==
    /\ call.at = "start"
    /\ call.fn = "process_from_products_step1"
    /\ csv_data' = [csv_data EXCEPT ![1] = call.data]
    /\ pc' = [pc EXCEPT ![1] = "stage"]
    /\ call' = [call EXCEPT !.at = "db"]
    /\ UNCHANGED <<dbTracker, dbCanonical, dbStaging, nextId, blob_name, file_status,
                   process_file_id, tx, result, ops, runs, last_commit, faults, conn>>

\* process_from_products_step1 with nothing staged: the early return.
Step1NoData ==
    /\ call.at = "db"
    /\ call.fn = "process_from_products_step1"
    /\ pc[1] = "stage"
    /\ staging_summary(csv_data[1]).providers = 0
    /\ staging_summary(csv_data[1]).products = 0
    /\ Return([status |-> TRUE, message |-> "no data"])
    /\ UNCHANGED pipelineVars

\* extract_invoice_data_with_openai returns the products of the invoice.
Extract ==
    /\ call.at = "start"
    /\ call.fn \in InvoiceEntries
    /\ call' = [call EXCEPT
                   !.products_data =
                       extract_invoice_data_with_openai(call.vision, call.name, call.data),
                   !.at = "extracted"]
    /\ UNCHANGED pipelineVars

\* process_invoice_image_direct: the DataFrame of the products is empty.
InvoiceEmpty ==
    /\ call.at = "extracted"
    /\ call.fn = "process_invoice_image_direct"
    /\ call.products_data = <<>>
    /\ Return(Failure("No products extracted from invoice"))
    /\ UNCHANGED pipelineVars

\* process_invoice_image_direct: apply_transformations, and the connection
\* is established.
InvoiceConnect ==
    /\ call.at = "extracted"
    /\ call.fn = "process_invoice_image_direct"
    /\ call.products_data # <<>>
    /\ csv_data' = [csv_data EXCEPT ![1] = call.products_data]
    /\ pc' = [pc EXCEPT ![1] = "stage"]
    /\ call' = [call EXCEPT !.at = "db"]
    /\ UNCHANGED <<dbTracker, dbCanonical, dbStaging, nextId, blob_name, file_status,
                   process_file_id, tx, result, ops, runs, last_commit, faults, conn>>

\* The connection of process_from_products_step1 or of
\* process_invoice_image_direct is not established.
EntryConnectFail ==
    /\ \/ call.at = "start" /\ call.fn = "process_from_products_step1"
       \/ /\ call.at = "extracted"
          /\ call.fn = "process_invoice_image_direct"
          /\ call.products_data # <<>>
    /\ Fault
    /\ Return(Failure("connection"))
    /\ UNCHANGED <<dbTracker, dbCanonical, dbStaging, nextId, pc, blob_name, csv_data,
                   file_status, process_file_id, tx, result, ops, runs, last_commit,
                   conn>>

\* process_invoice_image_direct: normalize_to_staging_tables_from_dataframe
\* appends the providers and the products, and raises KeyError at
\* df[['CleanLastReviewDt', 'PackageUnits', 'PercentageIVA']].
InvoiceStage ==
    /\ call.at = "db"
    /\ call.fn = "process_invoice_image_direct"
    /\ pc[1] = "stage"
    /\ StageTo(1, 2)
    /\ Raise(1, "staging", NoId)
    /\ UNCHANGED <<dbTracker, dbCanonical, blob_name, csv_data, file_status,
                   process_file_id, tx, runs, last_commit, faults, conn, call>>

\* The merge has committed: the entry point returns its success dict.
DbReturn ==
    /\ call.at = "db"
    /\ pc[1] = "update_status"
    /\ Return(Completed)
    /\ UNCHANGED pipelineVars

\* A step has raised: the except block returns the failure dict.
DbReturnFail ==
    /\ call.at = "db"
    /\ pc[1] = "done"
    /\ Return(result[1])
    /\ UNCHANGED pipelineVars

\* process_invoice_image: generate_csv_from_invoice_data and
\* upload_blob_content return.
Upload ==
    /\ call.at = "extracted"
    /\ call.fn = "process_invoice_image"
    /\ Return(Completed)
    /\ UNCHANGED pipelineVars

\* One of them raises.
UploadFail ==
    /\ call.at = "extracted"
    /\ call.fn = "process_invoice_image"
    /\ Return(Failure("upload"))
    /\ UNCHANGED pipelineVars

\* The steps of process_csv_from_stream inside the call.
StreamStep ==
    /\ call.at = "stream"
    /\ \/ Connect(1, call.name)
       \/ ConnectFail(1, call.name)
       \/ CheckStatus(1)
       \/ CheckFail(1)
       \/ Track(1)
       \/ TrackFail(1)
       \/ TrackLost(1)
       \/ EmptyCsv(1)
       \/ Stage(1)
       \/ \E upto \in 0..2 : StageFail(1, upto)
       \/ MarkSucceeded(1)
       \/ MarkFail(1)
       \/ Handler(1)
       \/ HandlerSwallow(1)

\* The staging load of process_from_products_step1, and the failures of the
\* staging load of either entry point.
StageStep ==
    /\ call.at = "db"
    /\ \/ call.fn = "process_from_products_step1" /\ Stage(1)
       \/ \E upto \in 0..(IF call.fn = "process_from_products_step1" THEN 2 ELSE 1) :
             StageFail(1, upto)

\* merge_staging_to_fact_tables inside the call.
MergeStep ==
    /\ call.at \in {"stream", "db"}
    /\ \/ MergeProvider(1)
       \/ MergeProduct(1)
       \/ MergeProviderProduct(1)
       \/ MergeError(1)
       \/ MergeFault(1)
       \/ Commit(1)

NextEntry ==
    \/ ReadBlob
    \/ ReadBlobFail
    \/ StreamStep
    \/ StreamReturn
    \/ Step1Connect
    \/ Step1NoData
    \/ Extract
    \/ InvoiceEmpty
    \/ InvoiceConnect
    \/ EntryConnectFail
    \/ InvoiceStage
    \/ StageStep
    \/ MergeStep
    \/ DbReturn
    \/ DbReturnFail
    \/ Upload
    \/ UploadFail

SpecEntry == InitEntry /\ [][NextEntry]_vars

\* ------------------------------------------------------- data_processor.py
\* A string whose characters matter is the sequence of its characters.
DigitChars == {"0", "1", "5"}
PriceChars == DigitChars \cup {".", ",", "$", " ", "-", "e", "x"}
PriceStrings(len) == UNION {[1..n -> PriceChars] : n \in 0..len}

DigitValue(c) == CASE c = "0" -> 0 [] c = "1" -> 1 [] c = "5" -> 5

RECURSIVE IntOf(_)
IntOf(d) ==
    IF d = <<>> THEN 0
    ELSE 10 * IntOf(SubSeq(d, 1, Len(d) - 1)) + DigitValue(d[Len(d)])

IsDigits(d) == d # <<>> /\ \A k \in 1..Len(d) : d[k] \in DigitChars

\* str.replace(c, ""): every occurrence of a character of `chars` is removed.
Remove(s, chars) == SelectSeq(s, LAMBDA c : c \notin chars)

NoDecimal == [kind |-> "None", sign |-> 0, coefficient |-> 0, exponent |-> 0]
Finite(sign, coefficient, exponent) ==
    [kind |-> "finite", sign |-> sign, coefficient |-> coefficient, exponent |-> exponent]

\* decimal.Decimal(str) on strings of PriceChars: an optional sign, digits,
\* and an optional exponent ("e", optional sign, digits); anything else is
\* InvalidOperation, which transform_price turns into None.
Decimal(s) ==
    LET sign == IF s # <<>> /\ s[1] = "-" THEN 1 ELSE 0
        body == IF sign = 1 THEN Tail(s) ELSE s
        es == {k \in 1..Len(body) : body[k] = "e"}
    IN IF es = {}
       THEN IF IsDigits(body) THEN Finite(sign, IntOf(body), 0) ELSE NoDecimal
       ELSE LET k == CHOOSE x \in es : \A y \in es : x <= y
                mant == SubSeq(body, 1, k - 1)
                ex == SubSeq(body, k + 1, Len(body))
                esign == IF ex # <<>> /\ ex[1] = "-" THEN 1 ELSE 0
                edigits == IF esign = 1 THEN Tail(ex) ELSE ex
            IN IF IsDigits(mant) /\ IsDigits(edigits)
               THEN Finite(sign, IntOf(mant),
                           IF esign = 1 THEN 0 - IntOf(edigits) ELSE IntOf(edigits))
               ELSE NoDecimal

transform_price(price_str) == Decimal(Remove(price_str, {".", ",", "$", " "}))

\* The characters of the price cells of the record sets below.
PriceText(cell) ==
    CASE cell = "$ 1.500" -> <<"$", " ", "1", ".", "5", "0", "0">>
      [] OTHER            -> <<"x">>

\* The field functions on the descriptions, dates and provider names of the
\* record sets below.
\* transform_description: strip().title()
transform_description(d) ==
    CASE d = "arroz 500g x 12 (G13)" -> "Arroz 500G X 12 (G13)"
      [] d = "aceite 500ml"          -> "Aceite 500Ml"
      [] OTHER                       -> d

\* extract_measure_and_unit: first match of measure_regex, and first match
\* of packageUnits_regex; the unit is lowered by apply_transformations.
extract_measure_and_unit(d) ==
    CASE d = "arroz 500g x 12 (G13)" -> <<"500", "g", "12">>
      [] d = "aceite 500ml"          -> <<"500", "ml", NULL>>
      [] OTHER                       -> <<NULL, NULL, NULL>>

\* extract_iva: the digits of "(G<digits>)" in the description, or None.
extract_iva(d) ==
    CASE d = "arroz 500g x 12 (G13)" -> "13"
      [] OTHER                       -> NULL

\* infer_and_transform_date: parse(date_str, dayfirst=True).strftime("%Y-%m-%d")
infer_and_transform_date(d) ==
    CASE d = "15/01/2024" -> "2024-01-15"
      [] OTHER            -> NULL

\* transform_provider_name(...).title()
transform_provider_name(n) ==
    CASE n = "prov a" -> "Prov A"
      [] OTHER        -> n

\* Series.astype(str): a missing value becomes the text "nan".
astype_str(v) == IF v = NULL THEN "nan" ELSE v

\* A DataFrame: its column labels, its index labels and its rows.
Frame(columns, index, rows) == [columns |-> columns, index |-> index, rows |-> rows]

\* df.rename(columns={old: new})
rename(df, old, new) ==
    IF old \notin df.columns THEN df
    ELSE Frame((df.columns \ {old}) \cup {new}, df.index,
               [k \in DOMAIN df.rows |->
                   [c \in (df.columns \ {old}) \cup {new} |->
                       IF c = new THEN df.rows[k][old] ELSE df.rows[k][c]]])

\* df[col] = values, one value for each row
assign(df, col, values) ==
    Frame(df.columns \cup {col}, df.index,
          [k \in DOMAIN df.rows |->
              [c \in df.columns \cup {col} |->
                  IF c = col THEN values[k] ELSE df.rows[k][c]]])

\* pd.isna of a cell: CleanPrice holds Decimal values, the others text.
IsNull(c, v) == IF c = "CleanPrice" THEN v.kind = "None" ELSE v = NULL

\* df.dropna(how='all'): a row goes when every one of its cells is missing;
\* the rows that stay keep their index labels.
dropna_all(df) ==
    LET kept == SelectSeq([k \in 1..Len(df.rows) |-> k],
                    LAMBDA k : \E c \in df.columns : ~IsNull(c, df.rows[k][c]))
    IN Frame(df.columns,
             [m \in 1..Len(kept) |-> df.index[kept[m]]],
             [m \in 1..Len(kept) |-> df.rows[kept[m]]])

apply_transformations(df) ==
    LET Price(d, k) == d.rows[k]["Price"]
        RawPrice(d) ==
            assign(d, "RawPrice", [k \in DOMAIN d.rows |-> astype_str(Price(d, k))])
        CleanPrice(d) ==
            assign(d, "CleanPrice",
                   [k \in DOMAIN d.rows |->
                       IF Price(d, k) # NULL THEN transform_price(PriceText(Price(d, k)))
                       ELSE NoDecimal])
        IsValidPrice(d) ==
            assign(d, "IsValidPrice",
                   [k \in DOMAIN d.rows |->
                       IF Price(d, k) # NULL /\ d.rows[k]["CleanPrice"].kind # "None"
                       THEN "True" ELSE "False"])
        LastReviewDt(d, k) == d.rows[k]["LastReviewDt"]
        RawLastReviewDt(d) ==
            assign(d, "RawLastReviewDt",
                   [k \in DOMAIN d.rows |-> astype_str(LastReviewDt(d, k))])
        CleanLastReviewDt(d) ==
            assign(d, "CleanLastReviewDt",
                   [k \in DOMAIN d.rows |->
                       IF LastReviewDt(d, k) # NULL
                       THEN infer_and_transform_date(LastReviewDt(d, k)) ELSE NULL])
        Description(d, k) == d.rows[k]["Description"]
        RawDescription(d) ==
            assign(d, "RawDescription",
                   [k \in DOMAIN d.rows |-> astype_str(Description(d, k))])
        CleanDescription(d) ==
            assign(d, "CleanDescription",
                   [k \in DOMAIN d.rows |->
                       IF Description(d, k) # NULL
                       THEN transform_description(Description(d, k)) ELSE NULL])
        MeasureColumn(d, col, n) ==
            assign(d, col,
                   [k \in DOMAIN d.rows |->
                       IF Description(d, k) # NULL
                       THEN extract_measure_and_unit(Description(d, k))[n] ELSE NULL])
        PercentageIVA(d) ==
            IF "PercentageIVA" \notin d.columns THEN d
            ELSE assign(d, "PercentageIVA",
                        [k \in DOMAIN d.rows |->
                            IF Description(d, k) # NULL
                            THEN extract_iva(Description(d, k)) ELSE NULL])
        ProviderName(d, k) == d.rows[k]["ProviderName"]
        RawProviderName(d) ==
            assign(d, "RawProviderName",
                   [k \in DOMAIN d.rows |-> astype_str(ProviderName(d, k))])
        CleanProviderName(d) ==
            assign(d, "CleanProviderName",
                   [k \in DOMAIN d.rows |->
                       IF ProviderName(d, k) # NULL
                       THEN transform_provider_name(ProviderName(d, k)) ELSE NULL])
        d1 == rename(rename(rename(rename(rename(df,
                  "Producto", "Description"), "Fecha 1", "LastReviewDt"),
                  "Provedor", "ProviderName"), "Precio", "Price"),
                  "IVA", "PercentageIVA")
        d2 == IF "Price" \notin d1.columns THEN d1
              ELSE IsValidPrice(CleanPrice(RawPrice(d1)))
        d3 == IF "LastReviewDt" \notin d2.columns THEN d2
              ELSE CleanLastReviewDt(RawLastReviewDt(d2))
        d4 == IF "Description" \notin d3.columns THEN d3
              ELSE PercentageIVA(
                       MeasureColumn(MeasureColumn(MeasureColumn(
                           CleanDescription(RawDescription(d3)),
                           "Measure", 1), "UnitOfMeasure", 2), "PackageUnits", 3))
        d5 == IF "ProviderName" \notin d4.columns THEN d4
              ELSE CleanProviderName(RawProviderName(d4))
    IN dropna_all(d5)

\* The record sets given to apply_transformations: the headers of a price
\* list, of a price list without date and tax column, of the CSV the invoice
\* pipeline writes, of a set with standard names and no date, and of a set
\* with no known column.
Headers ==
    {{"Producto", "Fecha 1", "Provedor", "Precio", "IVA"},
     {"Producto", "Provedor", "Precio"},
     {"Producto", "Fecha 1", "Precio", "Porcentaje de IVA"},
     {"Description", "Price", "PercentageIVA"},
     {"Nota"}}

CellValues(c) ==
    {NULL} \cup
    CASE c \in {"Producto", "Description"}  -> {"arroz 500g x 12 (G13)", "aceite 500ml"}
      [] c \in {"Fecha 1", "LastReviewDt"}  -> {"15/01/2024"}
      [] c \in {"Provedor", "ProviderName"} -> {"prov a"}
      [] c \in {"Precio", "Price"}          -> {"$ 1.500"}
      [] c \in {"IVA", "Porcentaje de IVA", "PercentageIVA"} -> {"0"}
      [] OTHER                              -> {"x"}

RowsOver(h) == {r \in [h -> UNION {CellValues(c) : c \in h}] :
                   \A c \in h : r[c] \in CellValues(c)}

Frames(max) ==
    UNION {UNION {{Frame(h, [k \in 1..n |-> k], rows) : rows \in [1..n -> RowsOver(h)]} :
              n \in 0..max} : h \in Headers}

TransformCalls(rows, len) ==
    {EntryCall("apply_transformations", "start", NULL, NULL, NULL, df) : df \in Frames(rows)}
    \cup {EntryCall("transform_price", "start", NULL, NULL, NULL, s) :
              s \in PriceStrings(len)}

InitTransform == InitPipeline /\ conn = ConnIdle /\ call \in TransformCalls(MaxRows, MaxPriceLen)

\* apply_transformations(df) returns the transformed record set.
ApplyTransformations ==
    /\ call.at = "start"
    /\ call.fn = "apply_transformations"
    /\ call' = [call EXCEPT !.result = apply_transformations(call.data), !.at = "returned"]
    /\ UNCHANGED pipelineVars

\* transform_price(price_str) returns a Decimal or None.
TransformPrice ==
    /\ call.at = "start"
    /\ call.fn = "transform_price"
    /\ call' = [call EXCEPT !.result = transform_price(call.data), !.at = "returned"]
    /\ UNCHANGED pipelineVars

NextTransform ==
    \/ ApplyTransformations
    \/ TransformPrice

SpecTransform == InitTransform /\ [][NextTransform]_vars

\* ------------------------------------------- process_csv_from_blob, tracked
\* A call process_csv_from_blob(container, name) runs as invocation 1 while
\* the blob trigger on "products-dev" delivers the file of the same name to
\* process_csv_from_stream, which runs as invocation 2.
BlobCalls == {c \in EntryCalls : c.fn = "process_csv_from_blob"}

InitContainers == InitPipeline /\ conn = ConnIdle /\ call \in BlobCalls

\* The steps of the triggered invocation.
TriggerStep ==
    \/ Connect(2, call.name)
    \/ ConnectFail(2, call.name)
    \/ CheckStatus(2)
    \/ CheckFail(2)
    \/ Track(2)
    \/ TrackFail(2)
    \/ TrackLost(2)
    \/ EmptyCsv(2)
    \/ Stage(2)
    \/ \E upto \in 0..2 : StageFail(2, upto)
    \/ MergeProvider(2)
    \/ MergeProduct(2)
    \/ MergeProviderProduct(2)
    \/ MergeError(2)
    \/ MergeFault(2)
    \/ Commit(2)
    \/ MarkSucceeded(2)
    \/ MarkFail(2)
    \/ Handler(2)
    \/ HandlerSwallow(2)

NextContainers ==
    \/ ReadBlob
    \/ ReadBlobFail
    \/ StreamStep
    \/ MergeStep
    \/ StreamReturn
    \/ TriggerStep

SpecContainers == InitContainers /\ [][NextContainers]_vars

\* ================================================================ properties
\* The ProcessFile rows of invocation i's file, and the row it tracks.
RowsOf(i) == {r \in ProcessFile : r.Container = DefaultContainer /\ r.FileName = blob_name[i]}
Tracked(i) == {r \in ProcessFile : r.Id = process_file_id[i]}

Skipped == [status |-> TRUE, message |-> "skipped", rows_processed |-> 0,
            rows_written |-> 0]

\* C1: an invocation whose status check reads the file's record in state
\* Succeeded (StatusId 3) ends at that step with the result status True,
\* rows_processed 0 and rows_written 0, the step changes no table, and the
\* invocation has made no write (no ProcessFile, UnitOfMeasure or staging
\* insert, no merge) when it has returned.
C1_SkipSucceeded ==
    /\ [][\A i \in Inv :
            (/\ pc[i] = "check"
             /\ pc'[i] # "check"
             /\ faults' = faults
             /\ file_status'[i].exists
             /\ file_status'[i].status_id = StatusSucceeded)
            => /\ pc'[i] = "done"
               /\ result'[i] = Skipped
               /\ ops'[i] = <<>>
               /\ UNCHANGED <<dbTracker, dbCanonical, dbStaging, nextId>>]_vars
    /\ [](\A i \in Inv : result[i].message = "skipped"
            => pc[i] = "done" /\ ops[i] = <<>> /\ result[i] = Skipped)

C1_Skipped ==
    \E i \in Inv :
        /\ pc[i] = "done"
        /\ result[i] = Skipped
        /\ \E r \in RowsOf(i) : r.Id = file_status[i].id /\ r.StatusId = StatusSucceeded

\* C2: of the invocations delivered for one source file, at most one stages
\* and merges the file's contents; no two of them both commit a merge.
C2_ExactlyOnce ==
    \A i, j \in Inv :
        (i # j /\ blob_name[i] # NULL /\ blob_name[i] = blob_name[j])
        => ~("merge" \in Range(ops[i]) /\ "merge" \in Range(ops[j]))

\* C3: a run of the merge for batch i that starts when the last committed
\* merge was that of batch i (same batch id, staging untouched) does not fail,
\* unless the database fails under it, and its commit leaves Provider, Product
\* and Provider_Product as they were: no row added, removed or duplicated.
C3_MergeIdempotent ==
    [][\A i \in Inv :
          (last_commit = i /\ pc[i] \in MergePcs)
          => /\ (pc'[i] = "done" => faults' # faults)
             /\ (pc'[i] = "update_status" => dbCanonical' = dbCanonical)]_vars

\* C4: the canonical tables change only when a merge transaction commits, and
\* then by all that its three statements wrote; a merge that fails at any
\* statement leaves Provider, Product and Provider_Product unchanged and
\* discards what its earlier statements wrote; the rows an open merge has
\* inserted are in no committed table, where another invocation could read
\* them.
C4_MergeAtomic ==
    /\ [][\A i \in Inv :
            (pc[i] \in MergePcs /\ pc'[i] \in {"handler", "done"})
            => dbCanonical' = dbCanonical /\ tx'[i] = NoTx]_vars
    /\ [][dbCanonical' # dbCanonical
            => \E i \in Inv :
                  /\ pc[i] = "commit"
                  /\ pc'[i] = "update_status"
                  /\ Provider' = ViewProvider(i)
                  /\ Product' = ViewProduct(i)
                  /\ Provider_Product' = ViewProviderProduct(i)]_vars
    /\ [](\A i \in Inv :
            /\ pc[i] \notin MergePcs => tx[i] = NoTx
            /\ Ids(tx[i].insProvider) \cap Ids(Provider) = {}
            /\ Ids(tx[i].insProduct) \cap Ids(Product) = {}
            /\ Ids(tx[i].insProviderProduct) \cap Ids(Provider_Product) = {})

\* A merge has failed after its Provider statement had inserted rows, and
\* Provider holds none of them.
C4_RolledBack ==
    \E i \in Inv :
        /\ pc[i] = "done"
        /\ result[i].message \in {"merge: statement failed", "merge: a row matched twice"}
        /\ nextId.Provider > 1 + Cardinality(Provider)

\* C5: a run that does not find the file Succeeded goes on to the tracker
\* write; when its check found no record, that write adds exactly one
\* ProcessFile row, for the file, in state InProgress (StatusId 2), and the
\* run tracks it; when its check found a record (InProgress or Failed), the
\* write sets that same record to InProgress, adds no row and changes no
\* other row; in both cases the run goes on to process the file.
C5_TrackerStart ==
    [][\A i \in Inv :
          /\ (/\ pc[i] = "check"
              /\ pc'[i] # "check"
              /\ faults' = faults
              /\ file_status'[i].status_id # StatusSucceeded)
             => pc'[i] = "track"
          /\ (pc[i] = "track" /\ pc'[i] # "track" /\ faults' = faults)
             => /\ pc'[i] = "stage"
                /\ IF ~file_status[i].exists
                   THEN \E r \in ProcessFile' \ ProcessFile :
                           /\ ProcessFile' = ProcessFile \cup {r}
                           /\ r.Id \notin Ids(ProcessFile)
                           /\ r.Container = DefaultContainer
                           /\ r.FileName = blob_name[i]
                           /\ r.StatusId = StatusInProgress
                           /\ process_file_id'[i] = r.Id
                   ELSE /\ Ids(ProcessFile') = Ids(ProcessFile)
                        /\ Cardinality(ProcessFile') = Cardinality(ProcessFile)
                        /\ \A r \in ProcessFile :
                              r.Id # file_status[i].id => r \in ProcessFile'
                        /\ \E r \in ProcessFile' :
                              /\ r.Id = file_status[i].id
                              /\ r.FileName = blob_name[i]
                              /\ r.StatusId = StatusInProgress
                        /\ process_file_id'[i] = file_status[i].id]_vars

\* A run has set the record it found Failed back to InProgress, and another
\* run has created the record of its file.
C5_Reprocessing ==
    \E i, j \in Inv :
        /\ pc[i] = "stage"
        /\ file_status[i].exists
        /\ file_status[i].status_id = StatusFailed
        /\ \E r \in Tracked(i) : r.StatusId = StatusInProgress
        /\ ~file_status[j].exists
        /\ ops[j] # <<>>
        /\ ops[j][1] = "ProcessFile.insert"

\* C6 (as the code has it): once a run holds the id of the file's record,
\* every failure of a later step takes it to the except block's status
\* update; the run then ends either with that update done, and the record in
\* state Failed (StatusId 1), or with that update having raised, the error
\* swallowed, and the ProcessFile table left as it was.
C6_FailedUnlessSwallowed ==
    /\ [][\A i \in Inv :
            (/\ pc[i] \notin {"idle", "check", "handler", "done"}
             /\ pc'[i] \in {"handler", "done"}
             /\ ~result'[i].status
             /\ process_file_id'[i] # NoId)
            => pc'[i] = "handler"]_vars
    /\ [][\A i \in Inv :
            (pc[i] = "handler" /\ pc'[i] # "handler")
            => /\ pc'[i] = "done"
               /\ \/ /\ ops'[i] = Append(ops[i], "ProcessFile.update")
                     /\ \E r \in ProcessFile' :
                           r.Id = process_file_id[i] /\ r.StatusId = StatusFailed
                  \/ /\ ops'[i] = ops[i]
                     /\ ProcessFile' = ProcessFile]_vars

\* A run whose staging failed has ended with its record set to Failed.
C6_MarkedFailed ==
    \E i \in Inv :
        /\ pc[i] = "done"
        /\ result[i] = Failure("staging")
        /\ ops[i][Len(ops[i])] = "ProcessFile.update"
        /\ \E r \in Tracked(i) : r.StatusId = StatusFailed

\* C6 (as the specification has it): a run that has written the file's record
\* (put it in InProgress) and then fails ends with that record in state
\* Failed.
C6_NeverLeftInProgress ==
    [][\A i \in Inv :
          (/\ pc[i] # "done"
           /\ pc'[i] = "done"
           /\ ~result'[i].status
           /\ ops'[i] # <<>>)
          => \E r \in ProcessFile' :
                r.Id = process_file_id[i] /\ r.StatusId = StatusFailed]_vars

\* What batch i staged is in the canonical tables: every staged provider and
\* product by name, and an association for every record's product and provider.
Merged(i) ==
    /\ \A k \in DOMAIN StagingProvider[i] :
          \E pr \in Provider : pr.Name = StagingProvider[i][k].Name
    /\ \A k \in DOMAIN StagingProduct[i] :
          \E p \in Product : p.ProductName = StagingProduct[i][k].ProductName
    /\ \A k \in DOMAIN csv_data[i] :
          \E pp \in Provider_Product, p \in Product, pr \in Provider :
              /\ pp.ProductId = p.Id
              /\ pp.ProviderId = pr.Id
              /\ p.ProductName = csv_data[i][k].CleanDescription
              /\ pr.Name = csv_data[i][k].CleanProviderName

\* C7: a ProcessFile row becomes Succeeded (StatusId 3) only by the final
\* status update of a run that tracks that row and whose last two writes were
\* its staging load and then its committed merge; and whenever a run has
\* returned "completed", what it staged is in the canonical tables.
C7_SucceededAfterMerge ==
    /\ [][\A r \in ProcessFile' :
            (r.StatusId = StatusSucceeded /\ r \notin ProcessFile)
            => \E i \in Inv :
                  /\ pc[i] = "update_status"
                  /\ pc'[i] = "done"
                  /\ process_file_id[i] = r.Id
                  /\ Len(ops[i]) >= 3
                  /\ ops[i][Len(ops[i])] = "merge"
                  /\ ops[i][Len(ops[i]) - 1] = "Staging.insert"
                  /\ StagingProviderProduct[i] # <<>>
                  /\ Merged(i)]_vars
    /\ [](\A i \in Inv : result[i].message = "completed"
            => /\ result[i].status
               /\ "merge" \in Range(ops[i])
               /\ Merged(i))

\* A run has completed and its record is Succeeded.
C7_Completed ==
    \E i \in Inv :
        /\ pc[i] = "done"
        /\ result[i].message = "completed"
        /\ Provider_Product # {}
        /\ \E r \in Tracked(i) : r.StatusId = StatusSucceeded

\* C8 (as the code has it): when the connection is not established the
\* invocation ends at once with status False; it has made no write, holds no
\* record id, and the ProcessFile table is as it was: no record is created
\* and none is set to Failed.
C8_AbortedUntracked ==
    /\ [][\A i \in Inv :
            (pc[i] = "idle" /\ pc'[i] # "idle" /\ faults' # faults)
            => /\ pc'[i] = "done"
               /\ result'[i] = Failure("connection")
               /\ ProcessFile' = ProcessFile]_vars
    /\ [](\A i \in Inv : result[i] = Failure("connection")
            => pc[i] = "done" /\ ops[i] = <<>> /\ process_file_id[i] = NoId)

\* An invocation was aborted for want of a connection and its file has no
\* record in state Failed.
C8_Aborted ==
    \E i \in Inv :
        /\ pc[i] = "done"
        /\ result[i] = Failure("connection")
        /\ \A r \in RowsOf(i) : r.StatusId # StatusFailed

\* C8 (as the specification has it): when the connection is not established
\* the invocation is aborted and the file's record ends in state Failed.
C8_AbortedAndFailed ==
    [][\A i \in Inv :
          (pc[i] = "idle" /\ pc'[i] # "idle" /\ faults' # faults)
          => /\ pc'[i] = "done"
             /\ \E r \in ProcessFile' :
                   /\ r.Container = DefaultContainer
                   /\ r.FileName = blob_name'[i]
                   /\ r.StatusId = StatusFailed]_vars

\* The attempts made so far whose probe failed.
FailedAttempts == {k \in 1..conn.connects : conn.engine[k] # "ok"}

\* C9: a call with max_retries = n makes at most n connection attempts and
\* ends; it returns the probe's row at the first attempt that succeeds, having
\* made no attempt after it; it raises only after n failed attempts, and then
\* the error of the last one; once ended it makes no further attempt.
C9_BoundedAttempts ==
    /\ [](/\ conn.connects <= conn.max_retries
          /\ conn.phase = "returned"
             => /\ conn.engine[conn.connects] = "ok"
                /\ FailedAttempts = 1..(conn.connects - 1)
                /\ conn.value = ProbeRow
          /\ conn.phase = "raised"
             => /\ conn.connects = conn.max_retries
                /\ FailedAttempts = 1..conn.max_retries
                /\ conn.value = conn.engine[conn.max_retries])
    /\ <>(conn.phase \in {"returned", "raised"})
    /\ [][conn.phase \in {"returned", "raised"} => conn' = conn]_vars

\* Three attempts have failed with max_retries = 3, the first and the last
\* with different errors, and the call has raised.
C9_Exhausted ==
    /\ conn.phase = "raised"
    /\ conn.max_retries = 3
    /\ conn.connects = 3
    /\ conn.engine[1] # conn.engine[3]

\* C10: the k-th sleep of a call, which follows failed attempt k - 1, lasts
\* 2^(k-1); there is one sleep for each failed attempt but the last of an
\* exhausted call, so none after a successful attempt, and n - 1 after n
\* failed attempts with max_retries = n; a sleep is always followed by
\* another attempt.
C10_Backoff ==
    /\ \A k \in 1..Len(conn.sleeps) : conn.sleeps[k] = 2 ^ (k - 1)
    /\ Len(conn.sleeps) =
           Cardinality(FailedAttempts) - (IF conn.phase = "raised" THEN 1 ELSE 0)
    /\ conn.phase = "returned" => Len(conn.sleeps) = conn.connects - 1
    /\ conn.phase = "raised" => Len(conn.sleeps) = conn.max_retries - 1
    /\ conn.phase = "sleeping" => conn.connects < conn.max_retries

\* Four attempts have failed with max_retries = 4: the sleeps were 1, 2, 4.
C10_ThreeSleeps ==
    /\ conn.phase = "raised"
    /\ conn.max_retries = 4
    /\ conn.sleeps = <<1, 2, 4>>

\* C11: an invocation whose connection probe yields no working connection
\* returns at that step a result with status False and the connection
\* failure as its message; the step touches no table and no identity
\* counter, and the invocation never makes a ProcessFile, UnitOfMeasure,
\* staging or merge operation: one that is past the probe, or has written
\* anything, is not one whose connection failed.
C11_NoWorkWithoutConnection ==
    /\ [][\A i \in Inv :
            (pc[i] = "idle" /\ pc'[i] # "idle" /\ faults' # faults)
            => /\ ~result'[i].status
               /\ result'[i].message = "connection"
               /\ ops'[i] = <<>>
               /\ tx'[i] = NoTx
               /\ UNCHANGED <<dbTracker, dbCanonical, dbStaging, nextId>>]_vars
    /\ [][\A i \in Inv :
            result[i].message = "connection"
            => /\ pc'[i] = "done"
               /\ ops'[i] = <<>>
               /\ result'[i] = result[i]]_vars
    /\ [](\A i \in Inv :
            (ops[i] # <<>> \/ pc[i] \notin {"idle", "done"})
            => result[i].message # "connection")

\* One invocation was refused a connection and returned, while the other
\* went on to write.
C11_Refused ==
    \E i, j \in Inv :
        /\ pc[i] = "done"
        /\ result[i].message = "connection"
        /\ ~result[i].status
        /\ ops[i] = <<>>
        /\ ops[j] # <<>>

\* What a caller can use as a result: a boolean status and a message.
IsResult(r) ==
    /\ "status" \in DOMAIN r
    /\ "message" \in DOMAIN r
    /\ r.status \in BOOLEAN
    /\ r.message # "none"

\* C12: every entry point (process_csv_from_stream, process_csv_from_blob,
\* process_from_products_step1, process_invoice_image_direct,
\* process_invoice_image) hands its caller a result with a boolean status and
\* a message whatever step failed, the update to Failed in the except block
\* included; what leaves the call is never an exception.
C12_AlwaysAResult ==
    /\ call.at = "returned" => IsResult(call.result)
    /\ (call.at \in {"stream", "db"} /\ pc[1] = "done") => IsResult(result[1])

\* A call of a CSV entry point has returned a failure while its record is
\* still InProgress: the update to Failed raised and was swallowed.
C12_ReturnedAfterSwallow ==
    /\ call.at = "returned"
    /\ call.fn \in CsvEntries
    /\ ~call.result.status
    /\ process_file_id[1] # NoId
    /\ ops[1][Len(ops[1])] # "ProcessFile.update"
    /\ \E r \in ProcessFile : r.Id = process_file_id[1] /\ r.StatusId = StatusInProgress

\* C13: when the vision service fails (no configuration, a non-200 answer,
\* a raised error) or answers with something that cannot be parsed or is
\* empty, the invoice pipeline returns a failed result and that invocation
\* has inserted nothing into staging and merged nothing.
C13_VisionFailureFatal ==
    (/\ call.at = "returned"
     /\ call.fn \in InvoiceEntries
     /\ (call.vision # "parsed" \/ call.data = <<>>))
    => /\ ~call.result.status
       /\ "Staging.insert" \notin Range(ops[1])
       /\ "merge" \notin Range(ops[1])
       /\ \A b \in Inv : StagingProvider[b] = <<>> /\ StagingProduct[b] = <<>>

\* Invocation i has written no staging row, no unit of measure and nothing
\* canonical.
NoDataWritten(i) ==
    /\ "Staging.insert" \notin Range(ops[i])
    /\ "UnitOfMeasure.insert" \notin Range(ops[i])
    /\ "merge" \notin Range(ops[i])
    /\ StagingProvider[i] = <<>>
    /\ StagingProduct[i] = <<>>
    /\ StagingProviderProduct[i] = <<>>
    /\ tx[i] = NoTx

StagedProviderNames(b) ==
    {StagingProvider[b][k].Name : k \in 1..Len(StagingProvider[b])}

\* C15: a merge leaves every Provider row that existed before it as it was
\* (Id, Name, CreateDt), and its only effect on Provider is one new row for
\* each distinct name staged under its batch id that no row had before;
\* outside a commit of a merge Provider does not change.
C15_ProviderAppendOnly ==
    /\ [][\A i \in Inv : (pc[i] = "commit" /\ pc'[i] = "update_status")
             => LET new == {n \in StagedProviderNames(i) : \A r \in Provider : r.Name # n}
                    added == Provider' \ Provider
                IN /\ Provider \subseteq Provider'
                   /\ {r.Name : r \in added} = new
                   /\ Cardinality(added) = Cardinality(new)
                   /\ Ids(added) \cap Ids(Provider) = {}]_vars
    /\ [][Provider' # Provider
             => \E i \in Inv : pc[i] = "commit" /\ pc'[i] = "update_status"]_vars

\* A merge has committed that staged one name that had a row already and one
\* that had none: the older row is there with its earlier CreateDt.
C15_MatchedAndInserted ==
    \E i \in Inv :
        /\ last_commit = i
        /\ pc[i] = "update_status"
        /\ \E r, q \in Provider :
              /\ r.Name \in StagedProviderNames(i)
              /\ q.Name \in StagedProviderNames(i)
              /\ r.CreateDt < q.CreateDt
              /\ r.Name \in StagedProviderNames(CHOOSE j \in Inv : j # i)

\* C16: after committed merges that ran one after another no two Provider
\* rows have the same Name, also when a batch's data names one provider in
\* several rows and when a later batch stages a name an earlier batch
\* inserted.
C16_ProviderNamesUnique ==
    \A r, q \in Provider : r.Name = q.Name => r = q

\* Both batches have been merged; one of them named a provider in two rows,
\* the other staged the same name; Provider holds one row of that name.
C16_SameNameTwice ==
    \E i, j \in Inv :
        /\ i # j
        /\ pc[i] = "update_status"
        /\ pc[j] = "update_status"
        /\ \E k, l \in 1..Len(csv_data[i]) :
              /\ k # l
              /\ csv_data[i][k].CleanProviderName = csv_data[i][l].CleanProviderName
              /\ csv_data[i][k].CleanProviderName \in StagedProviderNames(j)
              /\ Cardinality({r \in Provider :
                     r.Name = csv_data[i][k].CleanProviderName}) = 1

\* The product names staged more than once under batch id b.
DuplicateProductKeys(b) ==
    {StagingProduct[b][k].ProductName : k \in
        {k \in 1..Len(StagingProduct[b]) :
            \E l \in 1..Len(StagingProduct[b]) :
                l # k /\ StagingProduct[b][l].ProductName = StagingProduct[b][k].ProductName}}

\* C17: when a batch stages several product rows of one name the merge
\* succeeds (the Product MERGE raises nothing) and leaves exactly one
\* Product row of that name, whose Description, Price, Measure and
\* UnitOfMeasureId are those of one of the staged rows, whether or not the
\* name had a row before.
C17_DuplicateKeyOneRow ==
    /\ [][\A i \in Inv :
             (/\ DuplicateProductKeys(i) # {}
              /\ pc[i] = "merge_product"
              /\ pc'[i] # "merge_product"
              /\ faults' = faults)
             => pc'[i] = "merge_provider_product"]_vars
    /\ [](\A i \in Inv : (pc[i] = "update_status" /\ last_commit = i)
             => \A n \in DuplicateProductKeys(i) :
                   /\ Cardinality({r \in Product : r.ProductName = n}) = 1
                   /\ \A r \in Product : r.ProductName = n
                         => \E k \in 1..Len(StagingProduct[i]) :
                               LET sp == StagingProduct[i][k]
                               IN /\ sp.ProductName = n
                                  /\ r.Description = sp.Description
                                  /\ r.Price = sp.Price
                                  /\ r.Measure = sp.Measure
                                  /\ r.UnitOfMeasureId = sp.UnitOfMeasureId)

\* C18: once the merge of batch id i has committed no row tagged i is left
\* in Staging.Provider, Staging.Product or Staging.Provider_Product; after a
\* merge that failed all rows of the batch are still there.
C18_StagingPurged ==
    /\ [][\A i \in Inv : (pc[i] = "commit" /\ pc'[i] = "update_status")
             => /\ InBatch(StagingProvider', i) = <<>>
                /\ InBatch(StagingProduct', i) = <<>>
                /\ InBatch(StagingProviderProduct', i) = <<>>]_vars
    /\ [][\A i \in Inv : (pc[i] \in MergePcs /\ pc'[i] \in {"handler", "done"})
             => /\ dbStaging' = dbStaging
                /\ InBatch(StagingProduct', i) # <<>>]_vars

\* C19: in every state, whatever the order or interleaving of invocations,
\* ProcessFile holds at most one row for a (Container, FileName); a later run
\* of the file changes that row and adds none.
C19_OneRowPerFile ==
    \A r, q \in ProcessFile :
        (r.Container = q.Container /\ r.FileName = q.FileName) => r.Id = q.Id

\* The product names staged under batch id b.
StagedProductNames(b) ==
    {StagingProduct[b][k].ProductName : k \in 1..Len(StagingProduct[b])}

\* C20: when two invocations with different batch ids, processing different
\* files, have both committed a merge, and both staged a provider name or a product name that had no
\* canonical row, the canonical table holds exactly one row of that name.
C20_ConcurrentMergeOneRow ==
    \A i, j \in Inv :
        (/\ i # j
         /\ blob_name[i] # blob_name[j]
         /\ "merge" \in Range(ops[i])
         /\ "merge" \in Range(ops[j]))
        => /\ \A n \in StagedProviderNames(i) \cap StagedProviderNames(j) :
                 Cardinality({r \in Provider : r.Name = n}) = 1
           /\ \A n \in StagedProductNames(i) \cap StagedProductNames(j) :
                 Cardinality({r \in Product : r.ProductName = n}) = 1

\* The current processing date, as YYYY-MM-DD.
Today == "2024-01-15"

\* apply_transformations has returned for the record set call.data.
Transformed == call.fn = "apply_transformations" /\ call.at = "returned"

\* ... and that record set has rows and a description column.
TransformedProducts ==
    /\ Transformed
    /\ call.data.rows # <<>>
    /\ call.data.columns \cap {"Producto", "Description"} # {}

\* C21: for a record set with neither a 'Fecha 1' nor a 'LastReviewDt'
\* column, the output of apply_transformations has the columns LastReviewDt
\* (the current processing date in every row), RawLastReviewDt and
\* CleanLastReviewDt.
C21_DateSynthesized ==
    (TransformedProducts /\ call.data.columns \cap {"Fecha 1", "LastReviewDt"} = {})
    => /\ {"LastReviewDt", "RawLastReviewDt", "CleanLastReviewDt"}
              \subseteq call.result.columns
       /\ \A m \in 1..Len(call.result.rows) :
             /\ call.result.rows[m]["LastReviewDt"] = Today
             /\ call.result.rows[m]["CleanLastReviewDt"] = Today

IvaAliases == {"PercentageIVA", "IVA", "Porcentaje de IVA"}

\* C22: the output of apply_transformations always has a PercentageIVA
\* column; it holds the values of the input's PercentageIVA, IVA or
\* Porcentaje de IVA column when the input has one, and the tax code
\* extracted from the description otherwise.
C22_IvaKeptOrDerived ==
    TransformedProducts
    => /\ "PercentageIVA" \in call.result.columns
       /\ \A m \in 1..Len(call.result.rows) :
             LET given == call.data.rows[call.result.index[m]]
                 desc == call.data.columns \cap {"Producto", "Description"}
             IN IF call.data.columns \cap IvaAliases # {}
                THEN \E a \in call.data.columns \cap IvaAliases :
                        call.result.rows[m]["PercentageIVA"] = given[a]
                ELSE \E d \in desc :
                        call.result.rows[m]["PercentageIVA"] =
                            IF given[d] # NULL THEN extract_iva(given[d]) ELSE NULL

\* C23: the output of apply_transformations holds exactly the input rows
\* that have a field that is not null.
C23_AllNullRowsDropped ==
    Transformed
    => {call.result.index[m] : m \in 1..Len(call.result.index)}
         = {k \in 1..Len(call.data.rows) :
               \E c \in call.data.columns : call.data.rows[k][c] # NULL}

\* C24: for a price string of digits, '.', ',', '$' and spaces transform_price
\* returns the digits that remain, read as one integer; when no digit remains
\* or the string has any other character it returns None.
C24_PriceDigitsOnly ==
    (call.fn = "transform_price" /\ call.at = "returned")
    => LET rest == Remove(call.data, {".", ",", "$", " "})
       IN IF IsDigits(rest)
          THEN call.result = Finite(0, IntOf(rest), 0)
          ELSE call.result = NoDecimal

\* C25: the tracker record a run of process_csv_from_blob(container, name)
\* consults and writes is that of (container, name): the run is skipped only
\* on a Succeeded record of that pair, and no step of it changes a record of
\* another container.
C25_TrackerPerContainer ==
    /\ [](call.at \in {"stream", "returned"} /\ pc[1] = "done" /\ result[1] = Skipped
             => \E r \in ProcessFile :
                   /\ r.Container = call.container
                   /\ r.FileName = call.name
                   /\ r.StatusId = StatusSucceeded)
    /\ [][ops'[1] # ops[1]
             => {r \in ProcessFile : r.Container # call.container}
                  = {r \in ProcessFile' : r.Container # call.container}]_vars

\* What merge_staging_to_fact_tables(b) would insert and update now.
MergeEffect(b) ==
    <<merge_providers_sql(ViewProvider(b), b, nextId.Provider),
      merge_products_sql(ViewProduct(b), b, nextId.Product),
      merge_provider_product_sql(ViewProviderProduct(b), ViewProduct(b), ViewProvider(b),
                                 b, nextId.Provider_Product)>>

\* C26: every staging row an invocation writes carries its batch id, and
\* what the merge of batch b inserts and updates depends on the staging rows
\* tagged b only: a step that adds staging rows of another batch id and
\* leaves the rows of b and the canonical tables alone does not change it.
C26_BatchScoped ==
    /\ [](\A b \in Inv :
             /\ \A k \in 1..Len(StagingProvider[b]) : StagingProvider[b][k].BatchGuid = b
             /\ \A k \in 1..Len(StagingProduct[b]) : StagingProduct[b][k].BatchGuid = b
             /\ \A k \in 1..Len(StagingProviderProduct[b]) :
                   StagingProviderProduct[b][k].BatchGuid = b)
    /\ [][\A b \in Inv :
             (/\ \E j \in Inv \ {b} :
                    <<StagingProvider'[j], StagingProduct'[j], StagingProviderProduct'[j]>>
                      # <<StagingProvider[j], StagingProduct[j], StagingProviderProduct[j]>>
              /\ StagingProvider'[b] = StagingProvider[b]
              /\ StagingProduct'[b] = StagingProduct[b]
              /\ StagingProviderProduct'[b] = StagingProviderProduct[b]
              /\ dbCanonical' = dbCanonical
              /\ tx'[b] = tx[b]
              /\ nextId'.Provider = nextId.Provider
              /\ nextId'.Product = nextId.Product
              /\ nextId'.Provider_Product = nextId.Provider_Product)
             => MergeEffect(b)' = MergeEffect(b)]_vars

\* Batch i has been merged while the rows of batch j were staged and not yet
\* merged, and a product only j staged has no canonical row.
C26_MergedBesideOtherBatch ==
    \E i, j \in Inv :
        /\ i # j
        /\ pc[i] = "update_status"
        /\ pc[j] = "merge_provider"
        /\ StagingProduct[i] # <<>>
        /\ \E n \in StagedProductNames(j) :
              /\ n \notin StagedProductNames(i)
              /\ \A r \in Product : r.ProductName # n

\* C27: the Provider_Product associations the merge inserts or updates are
\* exactly the (product, provider) pairs that occur together in a record of
\* the batch, each with the LastReviewDt, PackageUnits and IVA of such a
\* record: every committed association row comes from one record that names
\* its product and its provider and carries its three values.
C27_AssociationsFromRecords ==
    \A r \in Provider_Product :
        \E b \in Inv : \E k \in 1..Len(csv_data[b]) :
            /\ \E p \in Product :
                  p.Id = r.ProductId /\ p.ProductName = csv_data[b][k].CleanDescription
            /\ \E pr \in Provider :
                  pr.Id = r.ProviderId /\ pr.Name = csv_data[b][k].CleanProviderName
            /\ r.LastReviewDt = csv_data[b][k].CleanLastReviewDt
            /\ r.PackageUnits = csv_data[b][k].PackageUnits
            /\ r.IVA = csv_data[b][k].PercentageIVA

\* C28: after any sequence of committed merges the Provider_Product table
\* holds at most one row for each (ProductId, ProviderId) pair, and every
\* row references a Provider row and a Product row that exist.
C28_AssociationKeyUnique ==
    /\ \A r, s \in Provider_Product :
          (r.ProductId = s.ProductId /\ r.ProviderId = s.ProviderId) => r = s
    /\ \A r \in Provider_Product :
          r.ProductId \in Ids(Product) /\ r.ProviderId \in Ids(Provider)

\* C29: Succeeded is absorbing: once a file's record is in state Succeeded,
\* no step of any invocation moves it to InProgress or to Failed.
C29_SucceededAbsorbing ==
    [][\A r \in ProcessFile :
          r.StatusId = StatusSucceeded
            => \E s \in ProcessFile' : s.Id = r.Id /\ s.StatusId = StatusSucceeded]_vars

\* C30: when process_csv_from_stream returns a result with status False, the
\* canonical Provider, Product and Provider_Product tables are as they were
\* when the invocation started, whichever step failed. With every other
\* invocation still idle they started empty, so they are empty at the return.
C30_FailedLeavesCanonical ==
    \A i \in Inv :
        (/\ pc[i] = "done"
         /\ ~result[i].status
         /\ \A j \in Inv \ {i} : pc[j] = "idle")
        => (Provider = {} /\ Product = {} /\ Provider_Product = {})

====
